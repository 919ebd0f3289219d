SPECIFICATION CanonSpec
CONSTANTS
  N = 3
  M = 3
  None = None
  Unit = 4
  Tolerance = 1
  Tables <- MCTables
  Groups <- MCGroups
  Documents <- MCDocuments
INVARIANTS
  ParentsFirst
  RepairsAreMinimal
  StableOrder
  NoGroupCycle
  OnlyClosersDropped
  RelationsFollowBones
  WeightsAreWhole
PROPERTY Returns
CHECK_DEADLOCK FALSE
