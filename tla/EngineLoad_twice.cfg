CONSTANTS
  NumLayers = 2
  GroupSize = 4
  Calls <- MCCalls
  GraphBuffers = 3
  Memory = 120
  MaxLoads = 2
SPECIFICATION Spec
CHECK_DEADLOCK FALSE
INVARIANTS
  DeviceMemoryIsOwned
  ReadyAfterLoad
  ModelIsComplete
  CacheFitsLayers
  ArtifactsTokenizerWins
