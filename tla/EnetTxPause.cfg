SPECIFICATION Spec
CONSTANTS
  l1 = l1
  l2 = l2
  l3 = l3
  NULL = NULL
  ItemCount = 2
  MaxStarts = 1
  NBLs <- MCNBLs
  Calls <- MCCalls
  NBCount <- OneNB
  Overlap = {"cancel"}
CHECK_DEADLOCK FALSE
INVARIANT PausedDrained
