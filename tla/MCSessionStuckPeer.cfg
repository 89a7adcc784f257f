SPECIFICATION AppSpec
CONSTANTS
  t1 = t1
  t2 = t2
  Threads <- OneThread
  MaxQueue = 1
  MaxStack = 1
  Amounts = {1}
  SeqNumbers = {0}
  MaxGap = 1
  SendBuffer = 2
  TimerFails = FALSE
  AllocFails = FALSE
PROPERTY CloseCompletes
