SPECIFICATION Spec
CONSTANTS
  Size = 3
  FifoCount = 2
  TrdyLevel = 1
  TxDpcThreshold = 1
  MaxLength = 5
  MaxBytes = 7
INVARIANTS
  TypeOK
  CallbackExpected
PROPERTIES
  SendsInOrder
  RequestAnswered
CHECK_DEADLOCK FALSE
