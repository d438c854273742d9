CONSTANTS
  Configs <- MCConfigs
  Requests = {r1, r2}
  Balancers = {b1, b2}
  Statements = 2
  DatabaseExists = TRUE
  GraceCoversProbe = TRUE
  MaxDeaths = 2
SPECIFICATION Spec
CHECK_DEADLOCK FALSE
INVARIANTS
  TrafficHasSchema
  NoneTurnedAway
PROPERTIES
  ComesUp
  Stops
