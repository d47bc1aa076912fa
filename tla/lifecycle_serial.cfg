SPECIFICATION FairSpec
CONSTANTS
  Tasks = {t1, t2}
  EventIds = {e1, e2}
  Handlers = {h1}
  RequestTypes = {"task.started", "task.completed", "task.failed", "task.llm_call"}
  StoreMayFail = FALSE
  ServerMayCrash = FALSE
  CanRestart = FALSE
INVARIANTS
  OnlyIssuedTokenRecords
PROPERTIES
  FollowsStateMachine
  TerminalEventSettles
CHECK_DEADLOCK FALSE
