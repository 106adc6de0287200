SPECIFICATION FairSpec
CONSTANTS
  MaxAttempts = 2
  MaxCrashes = 1
  MaxFaults = 0
  Faults <- NoFaults
INVARIANT
  GoodInstallationSurvives
CHECK_DEADLOCK FALSE
