SPECIFICATION Spec
CONSTANTS
  x = x
  y = y
  u = u
  v = v
  z = z
  a = a
  g = g
  e = e
  Inputs <- SomeInputs
  Near <- AllNear
  Nodes <- NodesOfPairs
  Options <- ManyOptions
  MaxMeasured = 2
  NoLimit = NoLimit
  NoIndex = NoIndex
INVARIANTS
  ReportsAreExpected
  CompleteUnlessFlagged
  PairsStaySymmetric
  RemovedAreUnpaired
