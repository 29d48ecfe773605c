SPECIFICATION Spec
CONSTANTS
  k1 = k1
  k2 = k2
  b = b
  Runs <- MCRuns
  Keys <- MCKeys
  Bodies <- MCBodies
  Followed <- MCNone
  MaxNumber = 2
  MaxTroubles = 2
  BufferSize = 1
INVARIANTS
  EachRunIsHeldOnce
  LogIsSound
PROPERTIES
  AcceptedRunEnds
CHECK_DEADLOCK FALSE
