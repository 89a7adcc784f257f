SPECIFICATION ServerFairSpec
CONSTANTS
  Conns = {c1, c2}
  Sessions = {c1, c2}
  MaxBackoff = 3
  MaxConnections = 1
  MaxRetries = 2
  CounterSpan = 8
  Randoms = {0}
  Stops = TRUE
  RngFails = FALSE
  LogFails = FALSE
INVARIANTS
  LoopTypeOK
  OneLoop
  LoopGoesOn
  WithinLimit
  AdmittedIsHeld
PROPERTIES
  WindsDown
  OneLateAtMost
  StopReaches
  LivesKept
CHECK_DEADLOCK FALSE
