SPECIFICATION Spec
CONSTANTS
  MAX_PREPARED_TRANSFERS_COUNT = 2
  Cpus = {c1}
  MaxTransfers = 2
  MaxRequests = 1
  Races = {"burst"}
PROPERTIES
  SuccessWhole
CHECK_DEADLOCK FALSE
