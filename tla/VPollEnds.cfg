CONSTANTS
  a = a
  b = b
  c = c
  d = d
  stranger = stranger
  Task <- MCTask
  Key <- MCKey
  Graphs <- MCGraphs
  Conditional <- MCConditional
  Retries <- MCRetries
  Webhook = TRUE
  Billed = TRUE
  Faults = {"runner_raises"}
SPECIFICATION FairSpec
PROPERTIES
  PollEnds
