SPECIFICATION FairSpec
CONSTANTS
  Tasks = {t1, t2}
  MaxFaults = 2
  RepliesLost = TRUE
  RequestsEnd = TRUE
  ServerMayCrash = TRUE
INVARIANTS
  TypeOK
  HandleIsComplete
  ErrorMeansNoAgent
  FailureIsCleaned
PROPERTIES
  HandleLeadsToAgent
CHECK_DEADLOCK FALSE
