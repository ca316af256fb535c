SPECIFICATION Spec
CONSTANTS
  Global = Global
  child = child
  NoIncident = NoIncident
  Scopes <- TwoScopes
  BucketDuration = 1
  DetectionPersistence = 2
  RecoveryPersistence = 2
  Cooldown = 1
  MaxTime = 5
  MaxRewinds = 1
  MaxManualCloses = 1
INVARIANTS ScopesAreListed
CHECK_DEADLOCK FALSE
