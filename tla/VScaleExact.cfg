CONSTANTS
  Process = {b1}
  MinWorkers = 0
  MaxWorkers = 3
  MaxTasks = 3
  Faults = {}
SPECIFICATION Spec
PROPERTY ScaleExact
CHECK_DEADLOCK FALSE
