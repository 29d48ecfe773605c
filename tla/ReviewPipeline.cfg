CONSTANTS
  Dimensions = {"d1", "d2"}
  Paths = {"a", "b"}
  DiffPath = "merge-candidate.diff"
  Requests <- MCRequests
  Worlds <- MCWorlds
  Answers <- MCAnswers
  MaxOutput = 2
SPECIFICATION Spec
CHECK_DEADLOCK FALSE
INVARIANTS
  ReportAccountsForTheRun
  PassedMeansReviewed
  BlockedMeansGrounded
  NoFindingIsLost
  ContainerIsRemoved
PROPERTIES
  NoCallPastBudget
