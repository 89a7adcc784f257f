SPECIFICATION MgrSpec
CONSTANTS
  Sessions = {s1, s2, s3, s4}
  MaxConnections = 2
  MaxRetries = 2
  CounterSpan = 2
  Randoms = {0, 1}
  Stops = TRUE
  RngFails = TRUE
  LogFails = TRUE
SYMMETRY SessionSymmetry
INVARIANTS
  ListedIsFound
  EntriesAreOwned
PROPERTIES
  LeavesOwnEntry
CHECK_DEADLOCK FALSE
