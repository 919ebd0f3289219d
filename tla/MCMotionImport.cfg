SPECIFICATION ImportSpec
CONSTANTS
  Files <- MCFiles
  Fields <- MCFields
  Frames = {0, 1, 3}
  BoneName = 2
  IkName = 3
  BoneField = 2
  IkField = 3
  Leads <- MCLeads
  Pairs <- MCPairs
  Encoded <- MCEncoded
  Bones <- MCBones
  Morphs <- MCMorphs
  Times = {0, 1, 2, 3, 6, 7}
  None = None
  Limit = 1
INVARIANTS
  OnlyWholeSectionsAreRead
  SamplesFollowTheRecords
  WhatIsDroppedIsReported
PROPERTIES
  TracksAreStored
CHECK_DEADLOCK FALSE
