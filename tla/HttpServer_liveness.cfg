SPECIFICATION FairSpec
CONSTANTS
  w1 = w1  w2 = w2  c1 = c1  c2 = c2  c3 = c3  Free = Free
  Workers <- TwoWorkers
  Clients <- TwoClients
  MaxQueued = 1
  MaxStarts = 2
  CloseWakesAccept = TRUE
  EngineMayThrow = FALSE
  HostMayThrow = FALSE
  SpuriousWakeups = FALSE
  AcceptMayFail = TRUE
INVARIANTS StopLeavesNothingOpen StreamEndsWithDone
PROPERTIES StopReturns AcceptedIsClosed
CHECK_DEADLOCK FALSE
