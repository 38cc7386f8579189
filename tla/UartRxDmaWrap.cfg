SPECIFICATION Spec
CONSTANTS
  DmaBufferSize = 3
  MaxLength = 2
  MaxBytes = 4
  CancelledAtStart = FALSE
INVARIANTS
  BufferFilled
CHECK_DEADLOCK FALSE
