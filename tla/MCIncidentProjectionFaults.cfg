SPECIFICATION ProjectionSpec
CONSTANTS
  Global = Global
  NoIncident = NoIncident
  Scopes <- OneScope
  BucketDuration = 1
  DetectionPersistence = 2
  RecoveryPersistence = 2
  Cooldown = 1
  MaxTime = 3
  MaxRewinds = 0
  MaxManualCloses = 0
  MaxBatches = 4
  MaxFailures = 1
  MaxCrashes = 1
  MaxReviews = 1
  MaxAnalyses = 1
INVARIANTS NamedPackagesExist CheckpointIsShown
CHECK_DEADLOCK FALSE
