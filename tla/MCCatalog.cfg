CONSTANTS
  a = a
  b = b
  w1 = w1
  w2 = w2
  w3 = w3
  Name <- MCName
  Elsewhere = Elsewhere
  Declared <- MCName
  Declarations <- MCDeclarations
  Synced = a
  Writer = {w1, w2, w3}
  None = None
  Faults = {"crash"}
SYMMETRY Symmetry
SPECIFICATION Spec
INVARIANTS
  RowsBacked
  RowsDescribeData
  OkRunIsComplete
  OkRunIsConsistent
