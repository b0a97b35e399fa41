\* Every format but jxl without alpha; the largest frames of a gif leave u16.
CONSTANTS
  Files <- MCFiles
  LimitSets <- MCLimits
  Hints <- MCHints
  U16Max = 2
SPECIFICATION Spec
CHECK_DEADLOCK FALSE
INVARIANTS
  LimitsTypeOK
  FramesAreBounded
  PixelsInHandAreBounded
  DurationIsBounded
  SidesAreBounded
  SoundFilesDecode
