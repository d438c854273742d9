CONSTANTS
  Tasks = {t1, t2}
  Deletes = {d1}
  InflightMax = 2
  QueueBuffer = 1
  Workers = 1
  MaxParts = 2
  MaxRestarts = 1
  MayStop = TRUE
  RequestFaults = TRUE
  StoreFaults = TRUE
  BackendFaults = TRUE
SPECIFICATION Spec
CHECK_DEADLOCK FALSE
SYMMETRY TaskSymmetry
INVARIANTS
  DeliverableComplete
  GateAccounting
PROPERTIES
  ResultIsFinal
  ImplementsContract
  ImplementsRun
