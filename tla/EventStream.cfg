SPECIFICATION Spec
CONSTANTS
  k1 = k1
  k2 = k2
  b = b
  Runs <- MCOne
  Keys <- MCOneKey
  Bodies <- MCBodies
  Followed <- MCOne
  MaxNumber = 3
  MaxTroubles = 3
  BufferSize = 1
INVARIANTS
  PageSeesPrefix
PROPERTIES
  PageIsTold
CHECK_DEADLOCK FALSE
