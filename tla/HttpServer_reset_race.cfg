SPECIFICATION Spec
CONSTANTS
  w1 = w1  w2 = w2  c1 = c1  c2 = c2  c3 = c3  Free = Free
  Workers <- TwoWorkers
  Clients <- TwoClients
  MaxQueued = 1
  MaxStarts = 1
  CloseWakesAccept = TRUE
  EngineMayThrow = TRUE
  HostMayThrow = FALSE
  SpuriousWakeups = FALSE
  AcceptMayFail = FALSE
INVARIANT EngineCallsSerialized
CHECK_DEADLOCK FALSE
