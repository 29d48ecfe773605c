SPECIFICATION Spec
CONSTANTS
  MaxHandlers = 2
  MaxSent = 3
  MaxRepeats = 1
  MaxFaults = 1
  MaxPolicy = 2
INVARIANTS DeliveryHasItsEffectOnce AnsweredIsPrepared SnapshotIsOfItsAttempt
PROPERTIES WebhookStartIsExecuted
CHECK_DEADLOCK FALSE
