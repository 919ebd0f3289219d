SPECIFICATION Spec
CONSTANTS
  N = 3
  Paths <- MCPaths
  Stages <- MCStages
  Poses <- MCPoses
  Reports <- MCReports
  Frames <- MCFrames
  One <- MCOne
  Mul <- MCMul
  Inv <- MCInv
  Metres <- MCMetres
  Keep <- MCKeep
INVARIANT AmbiguousDriversReject
CHECK_DEADLOCK FALSE
