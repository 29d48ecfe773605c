CONSTANTS
  k1 = k1
  k2 = k2
  None = None
  ChangeRequests = {c1}
  Attempts = {a1, a2}
  Keys = {k1, k2}
  Identities = {i1}
  IdentityKey <- MCIdentityKey
  Findings = {f1, f2}
  Deliveries = {d1}
  Workers = {w1}
  MaxJobAttempts = 2
  MaxRetries = 2
  MaxRevision = 4
  MaxSyncAttempts = 2
  MaxSyncClaims = 2
SPECIFICATION Spec
SYMMETRY Symmetry
INVARIANTS
  TypeOK
  StandingDecisionIsSound
  GateIsReportPlusAcceptedRisks
  BypassBindsToStandingDecision
  LatestRevisionIsDueToTheCheck
PROPERTIES
  ImplementsAuthority
CHECK_DEADLOCK FALSE
