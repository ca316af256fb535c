SPECIFICATION Spec
CONSTANTS
  Global = Global
  child = child
  NoIncident = NoIncident
  Scopes <- OneScope
  BucketDuration = 2
  DetectionPersistence = 2
  RecoveryPersistence = 3
  Cooldown = 5
  MaxTime = 26
  MaxRewinds = 0
  MaxManualCloses = 0
INVARIANTS SignalOwnsIncident
PROPERTIES DetectionIsFresh RecoveryIsFresh CooldownHolds ImplementsCases
CHECK_DEADLOCK FALSE
