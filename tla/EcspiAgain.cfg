SPECIFICATION Spec
CONSTANTS
  MAX_PREPARED_TRANSFERS_COUNT = 2
  Cpus = {c1}
  MaxTransfers = 2
  MaxRequests = 2
  Races = {"mark", "again"}
PROPERTIES
  CompletesOwn
CHECK_DEADLOCK FALSE
