\* JPEG XL files without an alpha channel.
CONSTANTS
  Files <- MCRgbJxl
  LimitSets <- MCLimits
  Hints <- MCHints
  U16Max = 100
SPECIFICATION Spec
CHECK_DEADLOCK FALSE
INVARIANTS
  SoundFilesDecode
