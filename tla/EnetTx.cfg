SPECIFICATION Spec
CONSTANTS
  l1 = l1
  l2 = l2
  l3 = l3
  NULL = NULL
  ItemCount = 2
  MaxStarts = 2
  NBLs <- MCNBLs
  Calls <- MCCalls
  NBCount <- TwoNBs
  Overlap = {"send", "running"}
INVARIANTS
  TypeOK
  FrameInOnePlace
  RingMatchesQueue
  CompletedOnce
  PausedDrained
PROPERTIES
  FillOnlyWhenStarted
  DmaDrains
CHECK_DEADLOCK FALSE
