SPECIFICATION FairSpec
CONSTANTS
  DATA_REQUEST_CNT = 2
  CHECK_DATA_RECEIVED_CNT = 3
  REQUEST_TIMEOUT_CNT = 2
  MENU_TICKS = 1
  MaxFrames = 1
  Counts = {0}
  None = None
INVARIANTS
  TypeOK
  CycleBounded
  ManualOwnership
  NoAskWhileTurningOff
PROPERTIES
  PollingGoesOn
