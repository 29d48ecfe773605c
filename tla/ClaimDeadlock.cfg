CONSTANTS
  None = None
  ChangeRequests = {c1, c2}
  Attempts = {a1, a2}
  Deliveries = {d1}
  Transactions = {t1, t2, t3}
  MaxBatch = 2
  Kinds = {"start", "publish", "bypass", "invalidate", "recover", "job", "attempt", "reference", "sync", "claim"}
SPECIFICATION Spec
SYMMETRY Symmetry
INVARIANTS NoDeadlock
