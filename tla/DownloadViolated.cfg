CONSTANTS
  Tasks = {t1}
  Deletes = {d1}
  InflightMax = 1
  QueueBuffer = 1
  Workers = 1
  MaxParts = 1
  MaxRestarts = 0
  MayStop = FALSE
  RequestFaults = FALSE
  StoreFaults = FALSE
  BackendFaults = FALSE
SPECIFICATION Spec
CHECK_DEADLOCK FALSE
INVARIANTS
  PartsDownloadable
