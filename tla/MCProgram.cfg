CONSTANTS
  Main = main  Exporter = exporter  c1 = c1  c2 = c2
  Threads = {main, exporter, c1, c2}
  None = none
  Times <- MCTimes
  ErrorCap = 2
  MaxCalls = 4
SPECIFICATION ProgramFairSpec
INVARIANTS
  AverageBelowMax
  ExportedErrors
  CountersAgree
PROPERTIES
  ExitsAfterSignal
