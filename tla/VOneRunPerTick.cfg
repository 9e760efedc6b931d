CONSTANTS
  w = w
  a = a
  q = q
  Item <- WorkflowAndAlert
  Kind <- MCKind
  Cron <- MCCron
  Cyclic = {}
  Process = {p1, p2}
  Thread = {r1, r2}
  MaxTick <- MCOneTick
  Faults = {}
SPECIFICATION Spec
INVARIANTS
  OneRunPerTick
CHECK_DEADLOCK FALSE
