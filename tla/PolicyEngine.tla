---------------------------- MODULE PolicyEngine ----------------------------
(***************************************************************************)
(* internal/policy/engine.go: a list of rules behind a read-write lock,    *)
(* replaced as a whole by LoadFromFile and Reload, and read by Evaluate,   *)
(* which takes the list under the lock and walks it after.  Reloads and    *)
(* evaluations run concurrently, and the file can be edited at any time.   *)
(*                                                                         *)
(* A condition is compared with a field of the request as a string; keys   *)
(* and strings are members of small sets.                                  *)
(***************************************************************************)
EXTENDS Naturals, Sequences

CONSTANTS Fields,      \* condition keys the engine knows
          RuleSet,     \* rules: an action, and conditions by key
          Contents,    \* lists of rules a policy file may hold
          Bad,         \* a file that cannot be read or does not parse
          Requests,    \* requests: a string for each of Fields
          Reloaders,   \* concurrent calls of Reload
          Evaluators,  \* concurrent calls of Evaluate
          MaxEdits     \* bound on the edits of the file

ASSUME ContentsAssumption == Contents \subseteq Seq(RuleSet) /\ Bad \notin Contents
ASSUME EditsAssumption == MaxEdits \in Nat

VARIABLES file,      \* the policy file: one of Contents, or Bad
          edits,     \* how often it was edited
          written,   \* history: every content it had
          before,    \* history: calls of Reload begun before its last edit
          fresh,     \* history: the last to install was begun after it
          rules,     \* Engine.rules
          rpc,       \* control of each Reload
          parsed,    \* the rules it has read
          epc,       \* control of each Evaluate
          request,   \* its argument
          snapshot,  \* the list it walks
          next,      \* its loop variable, from 1
          decision   \* its result

fileVars     == <<file, edits, written>>
historyVars  == <<before, fresh>>
reloadVars   == <<rpc, parsed>>
evaluateVars == <<epc, request, snapshot, next, decision>>
vars == <<fileVars, historyVars, rules, reloadVars, evaluateVars>>

Decisions == [kind : {"allowed", "denied", "error"}, rule : Nat]

\* An Evaluate has no request and no result before its first call.
Nothing == [kind |-> "none"]

TypeOK ==
  /\ file \in Contents \cup {Bad}
  /\ edits \in Nat
  /\ written \subseteq Contents
  /\ before \subseteq Reloaders
  /\ fresh \in BOOLEAN
  /\ rules \in Contents
  /\ rpc \in [Reloaders -> {"idle", "read", "install"}]
  /\ parsed \in [Reloaders -> Contents]
  /\ epc \in [Evaluators -> {"idle", "loop", "done"}]
  /\ request \in [Evaluators -> Requests \cup {Nothing}]
  /\ snapshot \in [Evaluators -> Contents]
  /\ next \in [Evaluators -> Nat]
  /\ decision \in [Evaluators -> Decisions \cup {Nothing}]

\* NewEngine has loaded the file.
Init ==
  /\ file \in Contents
  /\ edits = 0
  /\ written = {file}
  /\ before = {}
  /\ fresh = TRUE
  /\ rules = file
  /\ rpc = [r \in Reloaders |-> "idle"]
  /\ parsed = [r \in Reloaders |-> file]
  /\ epc = [e \in Evaluators |-> "idle"]
  /\ request = [e \in Evaluators |-> Nothing]
  /\ snapshot = [e \in Evaluators |-> file]
  /\ next = [e \in Evaluators |-> 1]
  /\ decision = [e \in Evaluators |-> Nothing]

-----------------------------------------------------------------------------
(* matchRule.                                                               *)

\* Every condition holds; a key the engine does not know never does.
Matches(rule, req) == \A key \in DOMAIN rule.conditions :
  key \in Fields /\ req[key] = rule.conditions[key]

-----------------------------------------------------------------------------
(* Reload and LoadFromFile.                                                 *)

Edit ==
  /\ edits < MaxEdits
  /\ file' \in Contents \cup {Bad}
  /\ edits' = edits + 1
  /\ written' = written \cup ({file'} \ {Bad})
  /\ before' = {r \in Reloaders : rpc[r] # "idle"}
  /\ fresh' = FALSE
  /\ UNCHANGED <<rules, reloadVars, evaluateVars>>

\* Reload takes the path under the read lock; it is never changed.
BeginReload(r) ==
  /\ rpc[r] = "idle"
  /\ rpc' = [rpc EXCEPT ![r] = "read"]
  /\ UNCHANGED <<fileVars, historyVars, rules, parsed, evaluateVars>>

\* Mutant: a file that does not parse counts as one without rules.
ReadFileTakesBad(r) ==
  /\ rpc[r] = "read"
  /\ rpc' = [rpc EXCEPT ![r] = "install"]
  /\ parsed' = [parsed EXCEPT ![r] = IF file = Bad THEN <<>> ELSE file]
  /\ UNCHANGED <<fileVars, historyVars, rules, evaluateVars>>

\* The file is read and parsed with no lock held; an error ends the call.
ReadFile(r) ==
  /\ rpc[r] = "read"
  /\ \/ /\ file # Bad
        /\ rpc' = [rpc EXCEPT ![r] = "install"]
        /\ parsed' = [parsed EXCEPT ![r] = file]
     \/ /\ file = Bad
        /\ rpc' = [rpc EXCEPT ![r] = "idle"]
        /\ UNCHANGED parsed
  /\ before' = IF rpc'[r] = "idle" THEN before \ {r} ELSE before
  /\ UNCHANGED <<fileVars, fresh, rules, evaluateVars>>

\* Mutant: of two calls that would install, the first leaves it to the other.
InstallYields(r) ==
  /\ rpc[r] = "install"
  /\ rules' = IF \E q \in Reloaders \ {r} : rpc[q] = "install" THEN rules ELSE parsed[r]
  /\ rpc' = [rpc EXCEPT ![r] = "idle"]
  /\ before' = before \ {r}
  /\ fresh' = (r \notin before)
  /\ UNCHANGED <<fileVars, parsed, evaluateVars>>

\* Under the lock.
Install(r) ==
  /\ rpc[r] = "install"
  /\ rules' = parsed[r]
  /\ rpc' = [rpc EXCEPT ![r] = "idle"]
  /\ before' = before \ {r}
  /\ fresh' = (r \notin before)
  /\ UNCHANGED <<fileVars, parsed, evaluateVars>>

-----------------------------------------------------------------------------
(* Evaluate.                                                                *)

\* The list is taken under the read lock.
BeginEvaluate(e) ==
  /\ epc[e] # "loop"
  /\ \E req \in Requests : request' = [request EXCEPT ![e] = req]
  /\ snapshot' = [snapshot EXCEPT ![e] = rules]
  /\ next' = [next EXCEPT ![e] = 1]
  /\ epc' = [epc EXCEPT ![e] = "loop"]
  /\ UNCHANGED <<fileVars, historyVars, rules, reloadVars, decision>>

Decide(e, kind, rule) ==
  /\ decision' = [decision EXCEPT ![e] = [kind |-> kind, rule |-> rule]]
  /\ epc' = [epc EXCEPT ![e] = "done"]
  /\ UNCHANGED next

\* Mutant: the action of a rule is taken for the decision.
KindOfUnchecked(rule) == rule.action

\* What the action of a rule decides.
KindOf(rule) == CASE rule.action = "deny"  -> "denied"
                  [] rule.action = "allow" -> "allowed"
                  [] OTHER                 -> "error"

\* Mutant: the walk reads the engine's list, not the one it took.
StepReadsEngine(e) ==
  /\ epc[e] = "loop"
  /\ \/ next[e] > Len(rules) /\ Decide(e, "allowed", 0)
     \/ /\ next[e] <= Len(rules)
        /\ Matches(rules[next[e]], request[e])
        /\ Decide(e, KindOf(rules[next[e]]), next[e])
     \/ /\ next[e] <= Len(rules)
        /\ ~Matches(rules[next[e]], request[e])
        /\ next' = [next EXCEPT ![e] = @ + 1]
        /\ UNCHANGED <<epc, decision>>
  /\ UNCHANGED <<fileVars, historyVars, rules, reloadVars, request, snapshot>>

\* One turn of the loop, or what follows it.
Step(e) ==
  /\ epc[e] = "loop"
  /\ \/ next[e] > Len(snapshot[e]) /\ Decide(e, "allowed", 0)
     \/ /\ next[e] <= Len(snapshot[e])
        /\ Matches(snapshot[e][next[e]], request[e])
        /\ Decide(e, KindOf(snapshot[e][next[e]]), next[e])
     \/ /\ next[e] <= Len(snapshot[e])
        /\ ~Matches(snapshot[e][next[e]], request[e])
        /\ next' = [next EXCEPT ![e] = @ + 1]
        /\ UNCHANGED <<epc, decision>>
  /\ UNCHANGED <<fileVars, historyVars, rules, reloadVars, request, snapshot>>

Next ==
  \/ Edit
  \/ \E r \in Reloaders : BeginReload(r) \/ ReadFile(r) \/ Install(r)
  \/ \E e \in Evaluators : BeginEvaluate(e) \/ Step(e)

Spec == Init /\ [][Next]_vars

-----------------------------------------------------------------------------
(* Properties.                                                              *)

\* The rules of a list that apply to a request, in the words of the policy file:
\* those all of whose conditions hold, and a condition on an unknown key does
\* not hold.
Applicable(list, req) == {k \in DOMAIN list :
  \A key \in DOMAIN list[k].conditions :
    IF key \in Fields THEN req[key] = list[k].conditions[key] ELSE FALSE}

\* k is what "the first matching rule wins" selects; 0 when there is none.
IsFirstMatch(k, list, req) ==
  IF k = 0 THEN Applicable(list, req) = {}
  ELSE /\ k \in Applicable(list, req)
       /\ \A j \in Applicable(list, req) : k <= j

\* deploy/examples/policy.yaml, "evaluated in order; the first matching rule
\* wins", on one list, whatever reloads run meanwhile; without one the request
\* is allowed.  (Two other places promise what AnyDenyDenies says.)
DecisionIsFirstMatch == \A e \in Evaluators :
  epc[e] = "done" =>
    /\ IsFirstMatch(decision[e].rule, snapshot[e], request[e])
    /\ decision[e].kind = IF decision[e].rule = 0 THEN "allowed"
                          ELSE KindOf(snapshot[e][decision[e].rule])

\* types.go, "A request is denied if ANY deny rule matches", and ARCHITECTURE.md
\* in the same words: no rule that comes before a matching deny rule saves the
\* request.
AnyDenyDenies == \A e \in Evaluators :
  epc[e] = "done" /\ (\E k \in Applicable(snapshot[e], request[e]) :
                        snapshot[e][k].action = "deny")
    => decision[e].kind = "denied"

\* The rules in force, and those of every reload and evaluation in progress,
\* were once in the file: a file that cannot be read or parsed never opens the
\* policy, not even for the requests under way.
RulesComeFromFile ==
  /\ rules \in written
  /\ \A r \in Reloaders : rpc[r] = "install" => parsed[r] \in written
  /\ \A e \in Evaluators : snapshot[e] \in written

\* Reload takes effect, whatever other calls are under way: the rules it puts in
\* force are those the file holds, and they stay so until the file is edited
\* or a call begun before the last edit comes after it.  (Such a call does put
\* older rules back: the file is read before the lock is taken.)
ReloadTakesEffect == fresh => rules = file

\* What a call begun after the last edit has read is the file as it is.
ReloadInv ==
  /\ ReloadTakesEffect
  /\ \A r \in Reloaders \ before : rpc[r] = "install" => parsed[r] = file

\* What the walk has established: no rule before the loop variable applies.
WalkInv == \A e \in Evaluators :
  epc[e] = "loop" =>
    /\ next[e] \in 1 .. Len(snapshot[e]) + 1
    /\ \A k \in Applicable(snapshot[e], request[e]) : k >= next[e]

IInv ==
  /\ TypeOK
  /\ file # Bad => file \in written
  /\ WalkInv
  /\ DecisionIsFirstMatch
  /\ RulesComeFromFile
  /\ ReloadInv
=============================================================================
