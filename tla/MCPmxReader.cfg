SPECIFICATION Spec
CONSTANTS
  Files <- MCFiles
  Stored <- MCStored
  Lengths <- MCLengths
  Counts <- MCCounts
  BoneFlags <- MCBoneFlags
  None = None
  MaxRecords = 3
  Limit = 1
INVARIANTS
  OnlyImpossibleCountsAreRefused
  AllocationIsBounded
  IndicesAreResolved
  MaterialsDrawTheFaces
  DiagnosticsAreAccounted
CHECK_DEADLOCK FALSE
