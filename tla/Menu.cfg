SPECIFICATION Spec
CONSTANTS
  SUBMENUS = 3
  SETTINGS_SUBMENUS = 3
  MPG_AXES_SETTINGS = 3
  MPG_SPINDLE_SETTINGS = 1
  DIST_SETTINGS = 2
  button_delay = 4
  Default <- MCDefault
  Diff <- MCDiff
  Bound <- MCBound
  Top <- MCTop
  MINIMUM_BRIGHTNESS = 9
  MAXIMUM_BRIGHTNESS = 10
  SPINDLE_SPEED_MIN = 8
  SPINDLE_SPEED_MAX = 9
  SPINDLE_SPEED_DIFF = 1
  SPINDLE_SPEED_DEFAULT = 9
  Held <- MCHeld
  Points <- MCPoints
  NoTouch = NoTouch
INVARIANTS
  TypeOK
  PathConsistent
  NamesInRange
  CountersBelowDelay
  PresetsOrdered
PROPERTIES
  TreeSpec
