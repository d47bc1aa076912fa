--------------------------- MODULE MCPolicyEngine ---------------------------
(* PolicyEngine on small instances.                                         *)
EXTENDS PolicyEngine, TLC, FiniteSets

\* Two fields the engine knows and one it does not; a field of a request may be
\* empty (CreateTask leaves the model empty for a skill that needs none).
MCFields == {"team", "model"}
MCRequests == [MCFields -> {"x", ""}]

Conditions == UNION {[keys -> {"x"}] : keys \in SUBSET (MCFields \cup {"budget"})}
MCRules == [action : {"deny", "allow", "warn"}, conditions : Conditions]

\* Lists that decide differently: none, one and two rules, with every action,
\* none, one and two conditions, and the unknown key.
On(action, keys) == [action |-> action, conditions |-> [key \in keys |-> "x"]]
MCContents == {<<>>,
               <<On("allow", {"model"}), On("deny", {"team"})>>,
               <<On("deny", {"team"}), On("allow", {})>>,
               <<On("deny", {"budget"}), On("warn", {"team", "model"})>>,
               <<On("deny", {"team", "budget"}), On("deny", {"model"})>>}

Symmetry == Permutations(Reloaders) \cup Permutations(Evaluators)
=============================================================================
