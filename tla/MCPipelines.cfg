CONSTANTS
  a = a
  b = b
  c = c
  d = d
  Table <- MCTable
  Queries <- MCQueries
  Mentions <- MCMentions
SPECIFICATION Spec
INVARIANTS
  SearchRight
PROPERTIES
  ImplementsOrdering
  SearchEnds
