SPECIFICATION Spec
CONSTANTS
  ANSWER_TICKS = 10
  REPORT_TICKS = 12
  MaxLate = 1
  MaxLines = 3
  MaxChanges = 3
  MaxSwitchings = 4
INVARIANTS
  OneSwitching
