CONSTANTS
  Paths <- MCPaths
  Above <- MCAbove
  Rank <- MCRank
  v1 = v1
  v2 = v2
  Bodies = {v1, v2}
  NoBody = NoBody
  Clean <- MCClean
  Puts <- MCPuts
  Heads <- MCHeads
  Requests <- MCRequests
  MaxPrepared = 2
  MaxConcurrent = 1
SPECIFICATION Spec
INVARIANTS
  SnapshotTypeOK
  QuietSnapshotIsVisible
  SnapshotWasOnDisk
  FailureHasACause
  CommittedSourceHidesNoChange
CHECK_DEADLOCK FALSE
