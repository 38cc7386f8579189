SPECIFICATION Spec
CONSTANTS
  MAX_PREPARED_TRANSFERS_COUNT = 2
  Cpus = {c1, c2}
  MaxTransfers = 3
  MaxRequests = 1
  Races = {}
PROPERTIES
  RequestAnswered
CHECK_DEADLOCK FALSE
