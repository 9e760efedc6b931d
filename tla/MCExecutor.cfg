CONSTANTS
  a = a
  b = b
  c = c
  d = d
  stranger = stranger
  Task <- MCTask
  Key <- MCKey
  Graphs <- MCGraphs
  Conditional <- MCConditional
  Retries <- MCRetries
  Webhook = TRUE
  Billed = TRUE
  Faults = {"runner_raises", "exception", "crash"}
SPECIFICATION FairSpec
INVARIANTS
  TypeOK
  StartedAfterSuccess
  MemoryMatchesRows
  PropagationExact
  AttemptsAccounted
  NoOrphanWorker
  NotificationTrue
PROPERTIES
  ImplementsPromise
  RunConcludes
  ThreadEnds
