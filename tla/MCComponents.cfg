CONSTANTS
  Request = {r1, r2, r3, r4}
  Client = {c1, c2, c3}
  None = None
  Faults = {"crash", "dies", "docker", "refuses", "removed"}
  Page = 1
  Url = {u1, u2}
  Model = {m1, m2}
  Port = {p1, p2}
  Window = 2
  Limit = 1
  MaxTime = 3
  Process = {b1, b2}
  MinWorkers = 0
  MaxWorkers = 2
  MaxTasks = 2
  MaxLines = 1
SYMMETRY Symmetry
SPECIFICATION MCSpec
INVARIANTS
  OwnTable
  ShowsOwn
  ToldPushed
  OwnServer
  ToldPerIncident
  RateKept
  PaidIsLinked
  NeverTooMany
  OwnLines
  StdoutComesBack
CHECK_DEADLOCK FALSE
