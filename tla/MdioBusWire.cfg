SPECIFICATION Spec
CONSTANTS
  d1 = d1
  d2 = d2
  NULL = NULL
  Devices <- MCDevices
  Addresses = {0, 1}
  FrameCount = 3
  Configs = {1}
  Reads = {2}
  Overlap = {"wire"}
PROPERTIES
  OneTransfer
CHECK_DEADLOCK FALSE
