SPECIFICATION FairSpec
CONSTANTS
  Capacity = 2
  MaxLines = 4
INVARIANTS
  TypeOK
  LaunchAfterExit
  MarkerIsNotMissed
PROPERTIES
  AnswersAreTrue
  ReadyIsNoticed
  DeadlineEndsWait
CHECK_DEADLOCK FALSE
