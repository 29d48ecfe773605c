CONSTANTS
  k1 = k1
  k2 = k2
  None = None
  ChangeRequests = {c1, c2}
  Attempts = {a1, a2}
  Keys = {k1, k2}
  Identities = {i1}
  IdentityKey <- MCIdentityKey
  Findings = {f1}
  Deliveries = {}
  Workers = {w1, w2}
  MaxJobAttempts = 2
  MaxRetries = 2
  MaxRevision = 3
  MaxSyncAttempts = 1
  MaxSyncClaims = 1
SPECIFICATION Spec
SYMMETRY Symmetry
INVARIANTS
  AttemptIsDecidedOnce
  LostAuthorityIsFinal
PROPERTIES
  TerminalJobsStayTerminal
CHECK_DEADLOCK FALSE
