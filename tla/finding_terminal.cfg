SPECIFICATION Spec
CONSTANTS
  Tasks = {t1}
  EventIds = {e1, e2}
  Handlers = {h1, h2}
  RequestTypes = {"task.started", "task.completed"}
  StoreMayFail = FALSE
  ServerMayCrash = FALSE
  CanRestart = FALSE
PROPERTIES
  TerminalIsFinal
CHECK_DEADLOCK FALSE
