SPECIFICATION FairSpec
CONSTANTS
  MaxAttempts = 1
  MaxCrashes = 0
  MaxFaults = 0
  Faults <- NoFaults
INVARIANT
  RolledBackStopsCandidate
CHECK_DEADLOCK FALSE
