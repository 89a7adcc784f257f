SPECIFICATION ProtocolSpec
CONSTANTS
  Half = 8
  MaxAmount = 3
  MaxGap = 3
  Messages <- SampleMessages
INVARIANTS
  AmountMeant
  RefusedIsUnsound
PROPERTIES
  SequenceMeant
  StackMeant
CHECK_DEADLOCK FALSE
