SPECIFICATION Spec
CONSTANTS
  Runs = {x, y}
  Models <- MCModels
  Paths <- MCPaths
  Stem <- MCStem
  Disks <- MCDisks
  Changes <- MCChanges
  Precedes <- MCPrecedes
  Number <- MCNumber
  Old = Old
  None = None
  MaxChanges = 1
INVARIANTS
  NothingLeftBehind
  NamesLeadToTheirImages
PROPERTY OutputIsReplacedWhole
SYMMETRY MCSymmetry
CHECK_DEADLOCK FALSE
