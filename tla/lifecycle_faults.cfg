SPECIFICATION Spec
CONSTANTS
  Tasks = {t1}
  EventIds = {e1, e2}
  Handlers = {h1, h2}
  RequestTypes = {"task.started", "task.completed", "task.failed", "task.timeout", "unknown"}
  StoreMayFail = TRUE
  ServerMayCrash = TRUE
  CanRestart = TRUE
SYMMETRY Symmetry
INVARIANTS
  TypeOK
  StateHasEvidence
  RevocationJustified
  AcknowledgedIsRecorded
  CreatedIsUsable
  AnsweredTerminalIsRevoked
  RollbackLeavesNoZombie
PROPERTIES
  RevokedForever
  RevokedAndQuietIsFrozen
CHECK_DEADLOCK FALSE
