SPECIFICATION Spec
CONSTANTS
  Observed <- MCObserved
  Windows <- MCWindows
  Baseline <- MCBaseline
  Changes <- MCChanges
  MinAttempts = 4
  MinBaseline = 10
  MinErrors = 2
  TopN = 1
  MinExcess <- MCMinExcess
  MinIncrease <- MCMinIncrease
  Retention <- MCRetention
  Improvement <- MCImprovement
  MinAnomaly <- MCMinAnomaly
  MaxResidual <- MCMaxResidual
  Lookback = 2
  Skew = 0
  Shortlist = 1
  MaxVersion = 4
  MaxRestarts = 1
INVARIANTS HealthyIsNotBlamed EvidenceOnlyAdds StrongestLeads StaleOnlyWithinVersion
CHECK_DEADLOCK FALSE
