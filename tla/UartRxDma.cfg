SPECIFICATION Spec
CONSTANTS
  DmaBufferSize = 3
  MaxLength = 2
  MaxBytes = 4
  CancelledAtStart = FALSE
INVARIANTS
  TypeOK
  BytesAccounted
  RequestHeld
PROPERTIES
  TakesInOrder
  FilledCompletes
CHECK_DEADLOCK FALSE
