\* gif files with a screen beyond the limits; long and turned animations.
CONSTANTS
  Files <- MCEscaping
  LimitSets <- MCLimits
  Hints <- MCHints
  U16Max = 100
SPECIFICATION Spec
CHECK_DEADLOCK FALSE
INVARIANTS
  EveryDecodeIsBounded
