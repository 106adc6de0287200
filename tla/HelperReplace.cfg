SPECIFICATION FairSpec
CONSTANTS
  MaxAttempts = 2
  MaxCrashes = 1
  MaxFaults = 1
  Faults <- ErrorFaults
INVARIANTS
  TypeOK
  BaseSurvives
  ReturnedMeansReplaced
  FailureRecordMeansRestored
  TargetHasExited
  VerifiedCandidateIsStopped
PROPERTIES
  RunsAreAtomic
  HelperEnds
CHECK_DEADLOCK FALSE
