SPECIFICATION Spec
CONSTANTS
  ABANDON_TIME = 2
INVARIANTS
  StartsWhenReady
CHECK_DEADLOCK FALSE
