CONSTANTS
  Request = {r1, r2, r3}
  Client = {c1, c2}
  New = {u1}
  Name = {"admin", "b"}
  Role = {viewer, editor}
  Column = {ssn}
  Table = {t1}
  None = None
  TTL = 1
  MaxTime = 3
  MaxRows = 2
  Faults = {"crash"}
SYMMETRY Symmetry
SPECIFICATION MCSpec
INVARIANTS
  QueriesUnderRules
  RevokedInTime
  ProfileWorks
PROPERTIES
  DisabledStaysOut
  RevokeEnds
CHECK_DEADLOCK FALSE
