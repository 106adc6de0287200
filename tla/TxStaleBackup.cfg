SPECIFICATION FairSpec
CONSTANTS
  MaxTx = 2
  MaxCrashes = 0
  MaxFaults = 0
  Faults <- ArtifactFaults
INVARIANT
  RolledBackRestoresPrevious
CHECK_DEADLOCK FALSE
