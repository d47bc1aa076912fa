SPECIFICATION FairSpec
CONSTANTS
  Tasks = {t1, t2, t3}
  MaxConcurrency = 1
  Callers = 2
INVARIANTS
  TypeOK
  CountIsExact
  OvershootIsBounded
  DirectoryIsKept
PROPERTIES
  KeepsContract
  EndedIsForgotten
CHECK_DEADLOCK FALSE
