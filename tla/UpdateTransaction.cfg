SPECIFICATION FairSpec
CONSTANTS
  MaxTx = 2
  MaxCrashes = 2
  MaxFaults = 1
  Faults <- AllFaults
INVARIANTS
  TypeOK
  CommittedIsHealthyCandidate
  StagedBackupIsKept
  StagedRollbackRestoresBase
  RecordPrecedesReplacement
  RecoverFailsClosed
PROPERTIES
  UpdatesAreAtomic
  TerminalIsFinal
  InterruptedReplacementSettles
  CallReturns
CHECK_DEADLOCK FALSE
