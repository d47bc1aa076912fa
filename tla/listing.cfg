SPECIFICATION Spec
CONSTANTS
  Tasks = {t1, t2}
  EventIds = {e1, e2}
  PostTypes = {"task.completed", "task.llm_call"}
  StateParams = {"any", "pending", "running"}
  SinceParams = {0, 2}
  LimitParams = {0, 3}
  DefaultLimit = 1
  MaxPageSize = 2
  StatusLimit = 1
SYMMETRY Symmetry
INVARIANTS
  TypeOK
  MissesAtMostLeavers
  RepeatsAtMostNewcomers
  ReadIsExplained
  StatusWithinLimitIsComplete
