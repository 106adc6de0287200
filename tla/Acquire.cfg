SPECIFICATION FairSpec
CONSTANTS
  a = a
  b = b
  old = old
  new = new
  Callers <- TheCallers
  Releases <- TheReleases
  Release <- ReleaseOf
  Lowercase <- WithLowercase
  Found <- TheFound
  Archives <- TheArchives
  Executable = "app.exe"
  Size = 1
  MaxFiles = 2
  MaxExpanded = 2
  MaxCalls = 3
  MaxCrashes = 1
  MaxFaults = 1
INVARIANTS
  TypeOK
  StagedIsComplete
  RefusalIsJustified
  WithinLimits
PROPERTIES
  StagedOnce
  StagedIsVerified
  CallsCleanUp
  CallsEnd
CHECK_DEADLOCK FALSE
