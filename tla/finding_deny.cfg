SPECIFICATION Spec
CONSTANTS
  Fields <- MCFields
  Bad = Bad
  RuleSet <- MCRules
  Contents <- MCContents
  Requests <- MCRequests
  Reloaders = {r1}
  Evaluators = {e1}
  MaxEdits = 0
INVARIANTS
  AnyDenyDenies
