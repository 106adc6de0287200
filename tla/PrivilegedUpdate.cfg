SPECIFICATION FairSpec
CONSTANTS
  Helpers = {h1, h2}
  Requests <- AllRequests
  UpdatePolicies <- AllUpdates
  TargetPolicies <- AllTargets
  Presented <- AllPresented
  ApprovedPlaces <- Homes
  Channel = "stable"
  Windows <- WindowsMachines
  Releases = {1, 2}
  Provisioned <- Recorded
  MaxRevision = 2
  MaxTime = 2
  MaxLifetime = 1
  MaxSkew = 0
INVARIANTS
  TypeOK
  RequestServesOnce
  ConsumedWasVerified
  ReplacementIsAuthorized
PROPERTIES
  InvocationEnds
CHECK_DEADLOCK FALSE
