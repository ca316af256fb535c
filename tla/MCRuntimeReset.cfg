SPECIFICATION FairSpec
CONSTANTS
  NoEpoch = NoEpoch
  NoTick = NoTick
  NoBatch = NoBatch
  Evidence = 3
  MaxBatches = 3
  MaxResets = 2
  MaxFaults = 1
INVARIANTS FencedIsClean RecheckKeepsOldIncidentsOut
PROPERTIES FenceCatchesUp
CHECK_DEADLOCK FALSE
