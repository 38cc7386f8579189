SPECIFICATION Spec
CONSTANTS
  Concurrent = FALSE
  Partners = {"none", "fast", "fastNoPause"}
INVARIANTS
  TypeOK
  Quiet
PROPERTIES
  RequestsComplete
  LinkReported
CHECK_DEADLOCK FALSE
