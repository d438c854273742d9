CONSTANTS
  Tasks = {t1, t2}
  Deletes = {d1}
  InflightMax = 1
  QueueBuffer = 1
  Workers = 1
  MaxParts = 1
  MaxRestarts = 0
  MayStop = FALSE
  RequestFaults = TRUE
  StoreFaults = FALSE
  BackendFaults = TRUE
SPECIFICATION Spec
CHECK_DEADLOCK FALSE
INVARIANTS
  TypeOK
  QueueNeverFull
PROPERTIES
  EventuallySettled
  SlotsReturned
