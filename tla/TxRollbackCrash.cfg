SPECIFICATION FairSpec
CONSTANTS
  MaxTx = 1
  MaxCrashes = 1
  MaxFaults = 0
  Faults <- NoFaults
PROPERTY
  InterruptedTransactionEnds
CHECK_DEADLOCK FALSE
