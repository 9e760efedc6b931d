CONSTANTS
  a = a
  b = b
  c = c
  stranger = stranger
  Task <- MCTask
  Key <- MCKey
  Graphs <- MCGraphs
SPECIFICATION TopoSpec
INVARIANTS
  LayersEarliest
  VerdictRight
PROPERTIES
  ImplementsOrdering
  TopoTerminates
