CONSTANTS
  Tasks = {t1}
  Deletes = {d1, d2}
  Pollers = {p1, p2}
  InflightMax = 1
  QueueBuffer = 1
  Workers = 1
  MaxParts = 2
  MaxRestarts = 1
  MayStop = TRUE
  RequestFaults = TRUE
  StoreFaults = TRUE
  BackendFaults = TRUE
SPECIFICATION PollSpec
CHECK_DEADLOCK FALSE
SYMMETRY PollSymmetry
INVARIANTS
  ResponseComplete
  ResultsAgree
PROPERTIES
  ResultStays
