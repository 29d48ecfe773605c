CONSTANTS
  Findings = {f1, f2}
  Workers = {w1}
  MaxDeliveries = 2
  MaxRevision = 5
  MaxErrors = 2
  MaxCrashes = 1
SPECIFICATION Spec
INVARIANTS
  PublicationTypeOK
  PublishedSyncIsShown
  CheckFollowsDecision
PROPERTIES
  EveryResultSettles
  AcceptedRisksReachTheCheck
CHECK_DEADLOCK FALSE
