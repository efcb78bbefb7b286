SPECIFICATION Spec
CONSTANTS
  w1 = w1  w2 = w2  c1 = c1  c2 = c2  c3 = c3  Free = Free
  Workers <- TwoWorkers
  Clients <- ThreeClients
  MaxQueued = 1
  MaxStarts = 1
  CloseWakesAccept = FALSE
  EngineMayThrow = TRUE
  HostMayThrow = TRUE
  SpuriousWakeups = TRUE
  AcceptMayFail = TRUE
SYMMETRY Symmetry3
INVARIANTS SocketsHaveOneOwner GenerateExclusive
CHECK_DEADLOCK FALSE
