SPECIFICATION FairSpec
CONSTANTS
  p1 = p1
  p2 = p2
  p3 = p3
  d1 = d1
  Payments <- MCPayments
  Operations <- MCOperations
  OccurredAt <- MCOccurredAt
  AllowedLateness = 1
  Retention = 3
  BucketDuration = 1
  Count = 2
  MaxCopies = 1
  MaxCrashes = 0
  MaxCallFailures = 1
  MaxProjectionFailures = 1
PROPERTIES EveryEventSettles
CHECK_DEADLOCK FALSE
