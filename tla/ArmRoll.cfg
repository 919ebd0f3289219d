SPECIFICATION AdapterSpec
CONSTANTS
  Skeletons <- MCSkeletons
  Roles <- MCRoles
  ParentRole <- MCParentRole
  NoRole = NoRole
  TPose <- MCTPose
  RoleSpecs <- MCRoleSpecs
  ArmChain <- MCArmChain
  Twists <- MCTwists
  ArmRotations <- MCArmRotations
  ClipRanges <- MCClipRanges
  MaxSamples = 2
  Required <- MCRequired
  Evaluations <- MCEvaluations
  Morphs <- MCMorphs
  Errors <- MCErrors
  Tolerance = 1
INVARIANT
  TwistBonesKeepTheirPlace
CHECK_DEADLOCK FALSE
