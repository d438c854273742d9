CONSTANTS
  Tasks = {t1, t2}
  Deletes = {}
  InflightMax = 2
  QueueBuffer = 2
  Workers = 1
  MaxParts = 0
  MaxRestarts = 0
  MayStop = FALSE
  RequestFaults = FALSE
  StoreFaults = FALSE
  BackendFaults = FALSE
SPECIFICATION GaugeSpec
CHECK_DEADLOCK FALSE
INVARIANTS
  GaugesAtRest
