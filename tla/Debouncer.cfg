SPECIFICATION Spec
CONSTANTS
  BUTTON_CHANNELS = 4
  Configured = {0, 1, 3}
  UPDATE_TIME_LOW_TO_HIGH_DEFAULT = 3
  UPDATE_TIME_HIGH_TO_LOW_DEFAULT = 3
INVARIANTS
  TypeOK
  SettlesInTime
PROPERTIES
  BounceIgnored
