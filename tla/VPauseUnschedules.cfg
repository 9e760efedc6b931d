CONSTANTS
  w = w
  a = a
  q = q
  Item <- WorkflowAndAlert
  Kind <- MCKind
  Cron <- MCCron
  Cyclic = {}
  Process = {p1}
  Thread = {r1, r2}
  MaxTick <- MCNoTick
  Faults = {}
SPECIFICATION Spec
INVARIANTS
  PauseUnschedules
CHECK_DEADLOCK FALSE
