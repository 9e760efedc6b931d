CONSTANTS
  Request = {c1}
  New = {u1}
  Name = {"admin", "b"}
  None = None
  Faults = {}
SPECIFICATION Spec
PROPERTIES
  DeactivationTakes
CHECK_DEADLOCK FALSE
