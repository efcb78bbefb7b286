CONSTANTS
  Patches = 2
  Templates <- MCTemplates
  Bodies <- MCBodies
  IntMax = 7
  MaxSeqLen = 24
  DefaultMaxTokens = 4
  MaxResolution = 4
  MaxAspect = 2
  MaxLoads = 2
  MaxMessages = 3
SPECIFICATION Spec
CHECK_DEADLOCK FALSE
INVARIANTS
  ParametersOfOneTemplate
  AdmittedIsServable
  TurnsFollowMessages
  ImagesBecomePads
