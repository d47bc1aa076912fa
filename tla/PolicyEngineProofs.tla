------------------------- MODULE PolicyEngineProofs -------------------------
(***************************************************************************)
(* Theorems about PolicyEngine, for any rules, requests and files, and any *)
(* number of concurrent reloads and evaluations.                           *)
(***************************************************************************)
EXTENDS PolicyEngine, TLAPS

\* The walk tests a rule the way the policy file means it.
LEMMA MatchesApplicable ==
  ASSUME NEW list, NEW req, NEW k \in DOMAIN list
  PROVE  Matches(list[k], req) <=> k \in Applicable(list, req)
  BY DEF Matches, Applicable

\* The domain of a list of rules.
LEMMA ContentsDomain ==
  \A list \in Contents : Len(list) \in Nat /\ DOMAIN list = 1 .. Len(list)
  BY ContentsAssumption

LEMMA InitIInv == Init => IInv
<1> SUFFICES ASSUME Init PROVE IInv
  OBVIOUS
<1>1. TypeOK
  BY EditsAssumption, ContentsAssumption DEF Init, TypeOK
<1>2. WalkInv /\ DecisionIsFirstMatch
  BY DEF Init, WalkInv, DecisionIsFirstMatch
<1>3. RulesComeFromFile
  BY DEF Init, RulesComeFromFile
<1>4. file \in written
  BY DEF Init
<1>5. ReloadInv
  BY DEF Init, ReloadInv, ReloadTakesEffect
<1> QED
  BY <1>1, <1>2, <1>3, <1>4, <1>5 DEF IInv

LEMMA StepTypeOK == TypeOK /\ [Next]_vars => TypeOK'
<1> SUFFICES ASSUME TypeOK, [Next]_vars PROVE TypeOK'
  OBVIOUS
<1> USE DEF TypeOK, vars, fileVars, historyVars, reloadVars, evaluateVars
<1>1. CASE Edit
  <2>1. before' \subseteq Reloaders /\ fresh' \in BOOLEAN
    BY <1>1 DEF Edit
  <2>2. file' \in Contents \cup {Bad} /\ edits' \in Nat /\ written' \subseteq Contents
    BY <1>1 DEF Edit
  <2> QED
    BY <1>1, <2>1, <2>2 DEF Edit
<1>2. ASSUME NEW r \in Reloaders, BeginReload(r) PROVE TypeOK'
  BY <1>2 DEF BeginReload
<1>3. ASSUME NEW r \in Reloaders, ReadFile(r) PROVE TypeOK'
  <2>1. CASE file = Bad
    BY <1>3, <2>1 DEF ReadFile
  <2>2. CASE file # Bad
    BY <1>3, <2>2 DEF ReadFile
  <2> QED
    BY <2>1, <2>2
<1>4. ASSUME NEW r \in Reloaders, Install(r) PROVE TypeOK'
  <2>1. before' \subseteq Reloaders /\ fresh' \in BOOLEAN
    BY <1>4 DEF Install
  <2>2. rules' \in Contents /\ rpc' \in [Reloaders -> {"idle", "read", "install"}]
    BY <1>4 DEF Install
  <2> QED
    BY <1>4, <2>1, <2>2 DEF Install
<1>5. ASSUME NEW e \in Evaluators, BeginEvaluate(e) PROVE TypeOK'
  BY <1>5 DEF BeginEvaluate
<1>6. ASSUME NEW e \in Evaluators, Step(e) PROVE TypeOK'
  <2>1. \A k \in {"allowed", "denied", "error"}, n \in Nat :
          [kind |-> k, rule |-> n] \in Decisions
    BY DEF Decisions
  <2>2. \A rule : KindOf(rule) \in {"allowed", "denied", "error"}
    <3> TAKE rule
    <3>1. CASE rule.action = "deny"
      BY <3>1 DEF KindOf
    <3>2. CASE rule.action = "allow"
      BY <3>2 DEF KindOf
    <3>3. CASE rule.action \notin {"deny", "allow"}
      BY <3>3 DEF KindOf
    <3> QED
      BY <3>1, <3>2, <3>3
  <2>3. decision' \in [Evaluators -> Decisions \cup {Nothing}]
    <3>1. ASSUME NEW k \in {"allowed", "denied", "error"}, NEW n \in Nat,
                 Decide(e, k, n)
          PROVE  decision' \in [Evaluators -> Decisions \cup {Nothing}]
      BY <2>1, <3>1 DEF Decide
    <3>2. CASE next[e] > Len(snapshot[e]) /\ Decide(e, "allowed", 0)
      BY <3>1, <3>2
    <3>3. CASE Decide(e, KindOf(snapshot[e][next[e]]), next[e])
      BY <2>2, <3>1, <3>3
    <3>4. CASE UNCHANGED <<epc, decision>>
      BY <3>4
    <3> QED
      BY <1>6, <3>2, <3>3, <3>4 DEF Step
  <2>4. epc' \in [Evaluators -> {"idle", "loop", "done"}]
    BY <1>6 DEF Step, Decide
  <2>5. next' \in [Evaluators -> Nat]
    BY <1>6 DEF Step, Decide
  <2> QED
    BY <1>6, <2>3, <2>4, <2>5 DEF Step
<1>7. CASE UNCHANGED vars
  BY <1>7
<1> QED
  BY <1>1, <1>2, <1>3, <1>4, <1>5, <1>6, <1>7 DEF Next

\* What is installed, read or walked was in the file.
LEMMA StepRules ==
  IInv /\ [Next]_vars => RulesComeFromFile' /\ (file' # Bad => file' \in written')
<1> DEFINE Goal == RulesComeFromFile /\ (file # Bad => file \in written)
<1> SUFFICES ASSUME IInv, [Next]_vars PROVE Goal'
  OBVIOUS
<1> USE DEF IInv, TypeOK, RulesComeFromFile, vars, fileVars, historyVars,
            reloadVars, evaluateVars
<1>1. CASE Edit
  BY <1>1 DEF Edit
<1>2. ASSUME NEW r \in Reloaders, BeginReload(r) PROVE Goal'
  BY <1>2 DEF BeginReload
<1>3. ASSUME NEW r \in Reloaders, ReadFile(r) PROVE Goal'
  BY <1>3 DEF ReadFile
<1>4. ASSUME NEW r \in Reloaders, Install(r) PROVE Goal'
  BY <1>4 DEF Install
<1>5. ASSUME NEW e \in Evaluators, BeginEvaluate(e) PROVE Goal'
  BY <1>5 DEF BeginEvaluate
<1>6. ASSUME NEW e \in Evaluators, Step(e) PROVE Goal'
  BY <1>6 DEF Step
<1>7. CASE UNCHANGED vars
  BY <1>7
<1> QED
  BY <1>1, <1>2, <1>3, <1>4, <1>5, <1>6, <1>7 DEF Next

\* What a call begun after the last edit has read, and has installed unless an
\* older call came after it, is the file.
LEMMA StepReload == IInv /\ [Next]_vars => ReloadInv'
<1> SUFFICES ASSUME IInv, [Next]_vars PROVE ReloadInv'
  OBVIOUS
<1>0. TypeOK /\ ReloadInv
  BY DEF IInv
<1> USE DEF ReloadInv, ReloadTakesEffect, fileVars, historyVars, reloadVars
<1>1. CASE Edit
  BY <1>0, <1>1 DEF Edit, TypeOK
<1>2. ASSUME NEW r \in Reloaders, BeginReload(r) PROVE ReloadInv'
  BY <1>0, <1>2 DEF BeginReload, TypeOK
<1>3. ASSUME NEW r \in Reloaders, ReadFile(r) PROVE ReloadInv'
  <2>1. rpc \in [Reloaders -> {"idle", "read", "install"}] /\ parsed \in [Reloaders -> Contents]
    BY <1>0 DEF TypeOK
  <2>2. CASE file # Bad
    <3>1. /\ rpc' = [rpc EXCEPT ![r] = "install"]
          /\ parsed' = [parsed EXCEPT ![r] = file]
          /\ before' = before
          /\ UNCHANGED <<file, fresh, rules>>
      BY <1>3, <2>1, <2>2 DEF ReadFile
    <3> QED
      BY <1>0, <2>1, <3>1
  <2>3. CASE file = Bad
    <3>1. /\ rpc' = [rpc EXCEPT ![r] = "idle"] /\ parsed' = parsed
          /\ before' = before \ {r}
          /\ UNCHANGED <<file, fresh, rules>>
      BY <1>3, <2>1, <2>3 DEF ReadFile
    <3> QED
      BY <1>0, <2>1, <3>1
  <2> QED
    BY <2>2, <2>3
<1>4. ASSUME NEW r \in Reloaders, Install(r) PROVE ReloadInv'
  <2>1. rpc \in [Reloaders -> {"idle", "read", "install"}]
    BY <1>0 DEF TypeOK
  <2>2. /\ rpc[r] = "install" /\ rules' = parsed[r]
        /\ rpc' = [rpc EXCEPT ![r] = "idle"]
        /\ before' = before \ {r} /\ fresh' = (r \notin before)
        /\ UNCHANGED <<file, parsed>>
    BY <1>4 DEF Install
  <2>3. fresh' => rules' = file'
    BY <1>0, <2>2
  <2>4. \A q \in Reloaders \ before' : rpc'[q] = "install" => parsed'[q] = file'
    BY <1>0, <2>1, <2>2
  <2> QED
    BY <2>3, <2>4
<1>5. ASSUME NEW e \in Evaluators, BeginEvaluate(e) \/ Step(e) PROVE ReloadInv'
  BY <1>0, <1>5 DEF BeginEvaluate, Step
<1>6. CASE UNCHANGED vars
  BY <1>0, <1>6 DEF vars
<1> QED
  BY <1>1, <1>2, <1>3, <1>4, <1>5, <1>6 DEF Next

-----------------------------------------------------------------------------
(* The walk.                                                                *)

\* A call that a step does not touch keeps what it has established.
LEMMA WalkKeeps ==
  ASSUME IInv, NEW e \in Evaluators,
         epc'[e] = epc[e], request'[e] = request[e], snapshot'[e] = snapshot[e],
         next'[e] = next[e], decision'[e] = decision[e]
  PROVE  /\ epc'[e] = "loop" =>
              /\ next'[e] \in 1 .. Len(snapshot'[e]) + 1
              /\ \A k \in Applicable(snapshot'[e], request'[e]) : k >= next'[e]
         /\ epc'[e] = "done" =>
              /\ IsFirstMatch(decision'[e].rule, snapshot'[e], request'[e])
              /\ decision'[e].kind =
                   IF decision'[e].rule = 0 THEN "allowed"
                   ELSE KindOf(snapshot'[e][decision'[e].rule])
  BY DEF IInv, WalkInv, DecisionIsFirstMatch

LEMMA StepWalk == IInv /\ [Next]_vars => WalkInv' /\ DecisionIsFirstMatch'
<1> SUFFICES ASSUME IInv, [Next]_vars, NEW e \in Evaluators
             PROVE  /\ epc'[e] = "loop" =>
                         /\ next'[e] \in 1 .. Len(snapshot'[e]) + 1
                         /\ \A k \in Applicable(snapshot'[e], request'[e]) : k >= next'[e]
                    /\ epc'[e] = "done" =>
                         /\ IsFirstMatch(decision'[e].rule, snapshot'[e], request'[e])
                         /\ decision'[e].kind =
                              IF decision'[e].rule = 0 THEN "allowed"
                              ELSE KindOf(snapshot'[e][decision'[e].rule])
  BY DEF WalkInv, DecisionIsFirstMatch
<1> DEFINE list == snapshot[e]
           turn == next[e]
<1>1. /\ list \in Contents
      /\ Len(list) \in Nat
      /\ DOMAIN list = 1 .. Len(list)
      /\ turn \in Nat
  BY ContentsDomain DEF IInv, TypeOK
<1>2. CASE BeginEvaluate(e)
  <2>1. epc'[e] = "loop" /\ snapshot'[e] = rules /\ next'[e] = 1
    BY <1>2 DEF BeginEvaluate, IInv, TypeOK
  <2>2. rules \in Contents
    BY DEF IInv, TypeOK
  <2>3. \A k \in Applicable(rules, request'[e]) : k >= 1
    BY <2>2, ContentsDomain DEF Applicable
  <2> QED
    BY <2>1, <2>2, <2>3, ContentsDomain
<1>3. CASE Step(e)
  <2>1. /\ snapshot'[e] = list
        /\ request'[e] = request[e]
        /\ epc[e] = "loop"
    BY <1>3 DEF Step, evaluateVars
  <2>2. /\ turn \in 1 .. Len(list) + 1
        /\ \A k \in Applicable(list, request[e]) : k >= turn
    BY <2>1 DEF IInv, WalkInv
  <2>3. \A k \in Applicable(list, request[e]) : k \in 1 .. Len(list)
    BY <1>1 DEF Applicable
  <2>4. CASE turn > Len(list) /\ Decide(e, "allowed", 0)
    <3>1. epc'[e] = "done" /\ decision'[e] = [kind |-> "allowed", rule |-> 0]
      BY <2>4 DEF Decide, IInv, TypeOK
    <3>2. Applicable(list, request[e]) = {}
      BY <1>1, <2>2, <2>3, <2>4
    <3> QED
      BY <2>1, <3>1, <3>2 DEF IsFirstMatch
  <2>5. CASE /\ turn <= Len(list)
             /\ Matches(list[turn], request[e])
             /\ Decide(e, KindOf(list[turn]), turn)
    <3>1. epc'[e] = "done" /\ decision'[e] = [kind |-> KindOf(list[turn]), rule |-> turn]
      BY <2>5 DEF Decide, IInv, TypeOK
    <3>2. turn \in Applicable(list, request[e])
      BY <1>1, <2>2, <2>5, MatchesApplicable
    <3>3. IsFirstMatch(turn, list, request[e])
      BY <1>1, <2>2, <2>3, <3>2 DEF IsFirstMatch
    <3> QED
      BY <2>1, <2>2, <3>1, <3>3
  <2>6. CASE /\ turn <= Len(list)
             /\ ~Matches(list[turn], request[e])
             /\ next' = [next EXCEPT ![e] = @ + 1]
             /\ UNCHANGED <<epc, decision>>
    <3>1. epc'[e] = "loop" /\ next'[e] = turn + 1
      BY <2>1, <2>6 DEF IInv, TypeOK
    <3>2. turn \notin Applicable(list, request[e])
      BY <1>1, <2>2, <2>6, MatchesApplicable
    <3>3. \A k \in Applicable(list, request[e]) : k >= turn + 1
      BY <1>1, <2>2, <2>3, <3>2
    <3> QED
      BY <1>1, <2>1, <2>2, <2>6, <3>1, <3>3
  <2> QED
    BY <1>3, <2>4, <2>5, <2>6 DEF Step
<1>4. CASE \E f \in Evaluators : f # e /\ (BeginEvaluate(f) \/ Step(f))
  <2>1. PICK f \in Evaluators : f # e /\ (BeginEvaluate(f) \/ Step(f))
    BY <1>4
  <2>2. /\ epc'[e] = epc[e] /\ request'[e] = request[e]
        /\ snapshot'[e] = snapshot[e] /\ next'[e] = next[e]
        /\ decision'[e] = decision[e]
    <3> USE DEF IInv, TypeOK
    <3>1. CASE BeginEvaluate(f)
      BY <2>1, <3>1 DEF BeginEvaluate
    <3>2. CASE Step(f)
      BY <2>1, <3>2 DEF Step, Decide
    <3> QED
      BY <2>1, <3>1, <3>2
  <2> QED
    BY <2>2, WalkKeeps
<1>5. CASE UNCHANGED evaluateVars
  BY <1>5, WalkKeeps DEF evaluateVars
<1>6. \/ \E f \in Evaluators : BeginEvaluate(f) \/ Step(f)
      \/ UNCHANGED evaluateVars
  BY DEF Next, Edit, BeginReload, ReadFile, Install, vars
<1> QED
  BY <1>2, <1>3, <1>4, <1>5, <1>6

-----------------------------------------------------------------------------
(* The theorems.                                                            *)

\* Everything above, for every state the engine can reach.
THEOREM Inductive == Spec => []IInv
<1>1. IInv /\ [Next]_vars => IInv'
  <2>1. IInv /\ [Next]_vars => TypeOK'
    BY StepTypeOK DEF IInv
  <2> QED
    BY <2>1, StepRules, StepReload, StepWalk DEF IInv
<1> QED
  BY InitIInv, <1>1, PTL DEF Spec

\* Types of the engine, the file, and every call in progress.
THEOREM TypeCorrect == Spec => []TypeOK
  BY Inductive, PTL DEF IInv

\* Evaluate decides by the first rule that applies, on one list, whatever is
\* reloaded meanwhile.
THEOREM FirstMatchWins == Spec => []DecisionIsFirstMatch
  BY Inductive, PTL DEF IInv

\* Only rules that were in the file are ever in force.
THEOREM NeverFailsOpen == Spec => []RulesComeFromFile
  BY Inductive, PTL DEF IInv

\* A Reload begun after the last edit puts in force what the file holds, until the
\* file is edited or an older call comes after it.
THEOREM ReloadsTakeEffect == Spec => []ReloadTakesEffect
  BY Inductive, PTL DEF IInv, ReloadInv
=============================================================================
