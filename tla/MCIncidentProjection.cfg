SPECIFICATION ProjectionSpec
CONSTANTS
  Global = Global
  NoIncident = NoIncident
  Scopes <- OneScope
  BucketDuration = 1
  DetectionPersistence = 2
  RecoveryPersistence = 2
  Cooldown = 1
  MaxTime = 6
  MaxRewinds = 0
  MaxManualCloses = 0
  MaxBatches = 6
  MaxFailures = 1
  MaxCrashes = 0
  MaxReviews = 1
  MaxAnalyses = 0
INVARIANTS EvidenceMatchesPackage
PROPERTIES ResolvedStaysListed
CHECK_DEADLOCK FALSE
