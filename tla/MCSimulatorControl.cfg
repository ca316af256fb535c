SPECIFICATION FairSpec
CONSTANTS
  RepeatsLost = TRUE
  MaxRequests = 4
  MaxOpen = 1
  MaxQueue = 1
  MaxRetries = 1
  MaxFaults = 1
INVARIANTS NoDeadEnd
PROPERTIES PrewarmEnds RecoveryEnds
CHECK_DEADLOCK FALSE
