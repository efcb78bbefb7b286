CONSTANTS
  w1 = w1
  w2 = w2
  copy = copy
  barrier = barrier
  Wrappers <- MCWrappers
  Commands <- MCCommands
  Barrier <- barrier
  FenceResetFails = FALSE
  MaxCreates = 2
  MaxCommands = 2
SPECIFICATION FairSpec
CHECK_DEADLOCK FALSE
INVARIANTS
  HandlesHaveOneOwner
  InFlightIsUntouched
  SynchronizedIsDone
PROPERTY SynchronizeReturns
