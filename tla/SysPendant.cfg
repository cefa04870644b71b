SPECIFICATION FairSpec
CONSTANTS
  DATA_REQUEST_CNT = 1
  CHECK_DATA_RECEIVED_CNT = 2
  REQUEST_TIMEOUT_CNT = 1
  MENU_TICKS = 0
  MaxFrames = 1
  None = None
  button_delay_action_cnt = 2
  Modulus = 1
  MaxMoves = 0
  LockPositions = {FALSE}
  MaxTasks = 1
  Buttons = {"mpg"}
  MaxTicks = 1
  MaxEnters = 0
  MaxLosses = 1
  MaxPowerCycles = 0
INVARIANTS
  EnableMeansUnderway
  EnabledMeansGranted
  ActionsHeard
PROPERTIES
  EnableAnswered
  AskTaken
