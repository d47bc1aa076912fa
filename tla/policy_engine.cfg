SPECIFICATION Spec
CONSTANTS
  Fields <- MCFields
  Bad = Bad
  RuleSet <- MCRules
  Contents <- MCContents
  Requests <- MCRequests
  Reloaders = {r1, r2}
  Evaluators = {e1}
  MaxEdits = 2
SYMMETRY Symmetry
INVARIANTS
  TypeOK
  RulesComeFromFile
  DecisionIsFirstMatch
  ReloadTakesEffect
