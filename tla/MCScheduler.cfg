CONSTANTS
  w = w
  a = a
  q = q
  Item <- WorkflowAndPipeline
  Kind <- MCKind
  Cron <- MCCron
  Cyclic = {q}
  Process = {p1}
  Thread = {r1, r2}
  MaxTick <- MCOneTick
  Faults = {"crash", "sync_raises"}
SPECIFICATION FairSpec
INVARIANTS
  ScheduleComplete
PROPERTIES
  StaleJobsInert
  EventuallyRegistered
