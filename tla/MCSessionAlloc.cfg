SPECIFICATION Spec
CONSTANTS
  t1 = t1
  t2 = t2
  Threads <- OneThread
  MaxQueue = 2
  MaxStack = 2
  Amounts = {1, 2}
  SeqNumbers = {0, 1, 3}
  MaxGap = 2
  SendBuffer = 2
  TimerFails = TRUE
  AllocFails = TRUE
INVARIANTS
  Inductive
PROPERTIES
  ClosedIsFinal
