SPECIFICATION Spec
CONSTANTS
  Joints <- MCJoints
  Models <- MCModels
  Motions <- MCMotions
  Feedbacks <- MCFeedbacks
  Givens <- MCGivens
  Evaluators = {e1, e2}
  Slots = {s1}
  None = None
  Rot <- MCRot
  Id <- MCId
  Mul <- MCMul
  Inv <- MCInv
  Pow <- MCPow
  Aims <- MCAims
  MaxCalls = 4
INVARIANTS
  HeldAsGiven
  BarrierFrame
  AppendsSettled
  EmptyFeedbackIsEvaluate
  ResumesAreRepeatable
  CompleteIsEvaluate
SYMMETRY MCSymmetry
CHECK_DEADLOCK FALSE
