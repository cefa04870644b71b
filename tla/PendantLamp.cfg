SPECIFICATION FairSpec
CONSTANTS
  button_delay_action_cnt = 2
  Modulus = 1
  MaxMoves = 0
  LockPositions = {FALSE}
  None = None
PROPERTY LampGoesOut
