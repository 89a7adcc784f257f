CONSTANTS
  Main = main  Exporter = exporter  c1 = c1  c2 = c2
  Threads = {main, exporter, c1, c2}
  None = none
  Times <- MCTimes
  ErrorCap = 1
  MaxCalls = 1
SPECIFICATION ProgramSpec
INVARIANT ExitIsGraceful
