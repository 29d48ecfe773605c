CONSTANTS
  Editors = {"e1", "e2"}
  Attempts = {"a1"}
  Files = {"in", "managed"}
  Managed = {"managed"}
  Roots = {"repo"}
  Inside <- MCInside
  Payloads <- MCPayloads
  Texts <- MCTexts
  Environment = {"KEY"}
  MaxRequests = 3
  MaxFaults = 1
SPECIFICATION Spec
INVARIANTS
  ExecutedIsTrusted
  QuietRegistryAgreesWithDisk
  CleanupRemovesOwnFile
PROPERTIES
  SaveReplacesWhatWasShown
CHECK_DEADLOCK FALSE
