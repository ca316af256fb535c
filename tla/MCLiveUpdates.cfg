SPECIFICATION FairSpec
CONSTANTS
  Resources = {overview, incidents}
  QueueSize = 2
  MaxChanges = 3
  MaxPublishers = 2
  MaxDisconnects = 1
  MaxGets = 2
  MaxFailures = 1
INVARIANTS PassedIsRefetched QuietIsFresh
PROPERTIES ChangesAreShown
CHECK_DEADLOCK FALSE
