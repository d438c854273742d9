CONSTANTS
  Tasks = {t1, t2}
  Deletes = {d1, d2}
  InflightMax = 2
  QueueBuffer = 2
  Workers = 2
  MaxParts = 2
  MaxRestarts = 0
  MayStop = FALSE
  RequestFaults = TRUE
  StoreFaults = FALSE
  BackendFaults = TRUE
SPECIFICATION Spec
CHECK_DEADLOCK FALSE
SYMMETRY TaskSymmetry
INVARIANTS
  CancelNotLost
  PartsKeptUnlessSwitched
  NotAbandoned
PROPERTIES
  CancelledIsSkipped
