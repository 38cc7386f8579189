SPECIFICATION Spec
CONSTANTS
  Size = 3
  FifoCount = 3
  RrdyLevel = 2
  MaxLength = 3
  MaxBytes = 6
PROPERTY AvailableNotified
CHECK_DEADLOCK FALSE
