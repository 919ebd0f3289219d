SPECIFICATION MorphSpec
CONSTANTS
  M = 5
  Groups <- MCGroups
  None = None
  Kinds <- KindsFromZero
  Ratio <- MCRatio
  Motions <- MCMotions
  Channels <- MCChannels
  UvOffsets <- MCUvOffsets
  MaterialOffsets <- MCMaterialOffsets
  Vertices = 3
  Materials = 2
  AdditionalUvs = 1
INVARIANT
  WeightsReachTheLeaves
CHECK_DEADLOCK FALSE
