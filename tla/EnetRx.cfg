SPECIFICATION Spec
CONSTANTS
  NULL = NULL
  ItemCount = 3
  LowWater = 0
  Throttles = {1, 3}
  MaxStarts = 2
  Undrained = FALSE
INVARIANTS
  TypeOK
  FrameHasOneOwner
  RingInOrder
  PausedDrained
PROPERTIES
  ReceivedIndicated
CHECK_DEADLOCK FALSE
