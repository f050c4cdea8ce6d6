SPECIFICATION FairSpec
CONSTANTS
  None = None
  Routes <- MCRoutes
  MaxBlocks = 2
  MaxPieces = 2
  MaxWire = 3
  ErrorThenDone = FALSE
INVARIANTS TypeOK WellFormed ContentIsKept FailureIsTold AccountIsTrue
PROPERTY StreamEnds
CHECK_DEADLOCK FALSE
