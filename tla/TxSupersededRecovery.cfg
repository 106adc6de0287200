SPECIFICATION SRSpec
CONSTANTS
  MaxTx = 2
  MaxCrashes = 1
  MaxFaults = 0
  Faults <- NoFaults
INVARIANT
  RecoveryRestoresItsBackup
CHECK_DEADLOCK FALSE
