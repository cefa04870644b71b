SPECIFICATION FairSpec
CONSTANTS
  ABANDON_TIME = 2
INVARIANTS
  NothingLeft
  StageMatches
  NoGhost
PROPERTIES
  TransactionEnds
CHECK_DEADLOCK FALSE
