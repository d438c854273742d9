CONSTANTS
  Configs <- MCUsable
  Requests = {}
  Balancers = {}
  Statements = 2
  DatabaseExists = FALSE
  GraceCoversProbe = TRUE
  MaxDeaths = 0
SPECIFICATION Spec
CHECK_DEADLOCK FALSE
PROPERTIES
  DatabaseCreated
