SPECIFICATION Spec
CONSTANTS
  Tasks = {t1, t2}
  MaxConcurrency = 1
  Callers = 2
INVARIANTS
  HandleOutlivesRequest
CHECK_DEADLOCK FALSE
