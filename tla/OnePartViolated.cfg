SPECIFICATION AdmissionSpec
CONSTANTS
  Channels <- MCChannels
  Sizes <- MCLines
  Requests <- MCRequests
  NoChannel = 0
  MaxChannels = 2
  MsThreshold = 100
  MaxRange = 31
  MaxHits = 5
  MaxScope = 2
  PageSize = 2
  PartMaxRows = 2
  PartMaxBytes = 20
  MaxTaskHits = 4
  PerChannelHardCap = 3
INVARIANTS
  ChannelInOnePart
CHECK_DEADLOCK FALSE
