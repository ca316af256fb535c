SPECIFICATION FairSpec
CONSTANTS
  Initial = {i1, i2}
  FollowUp = {f1}
  Threshold = 2
  ResetTime = 2
  MaxTime = 4
INVARIANTS AuditCountsCalls
PROPERTIES BreakerHolds RefusalsAreJustified RunsEnd
CHECK_DEADLOCK FALSE
