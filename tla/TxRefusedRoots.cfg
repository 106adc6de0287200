SPECIFICATION FairSpec
CONSTANTS
  MaxTx = 1
  MaxCrashes = 0
  MaxFaults = 0
  Faults <- RootFaults
INVARIANT
  RefusedPlanChangesNothing
CHECK_DEADLOCK FALSE
