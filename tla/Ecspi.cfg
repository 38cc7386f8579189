SPECIFICATION Spec
CONSTANTS
  MAX_PREPARED_TRANSFERS_COUNT = 2
  Cpus = {c1}
  MaxTransfers = 5
  MaxRequests = 3
  Races = {"mark", "timeout"}
INVARIANTS
  TypeOK
  TransfersInOrder
  Quiet
  CsReleased
PROPERTIES
  SuccessWhole
  RequestAnswered
CHECK_DEADLOCK FALSE
