SPECIFICATION Spec
CONSTANTS
  button_delay_action_cnt = 2
  Modulus = 6
  MaxMoves = 2
  LockPositions = {TRUE, FALSE}
  None = None
INVARIANTS
  TypeOK
  NoHiddenTurns
  EnabledOnlyWhenOn
