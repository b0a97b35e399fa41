\* An animation of two frames, three calls for frames, one load.
CONSTANTS
  Loads = {l1}
  Gets = {g1, g2, g3}
  Frames = 2
  Vector = FALSE
  Modes <- MCModes
  Applies = {}
  Accepts = {}
  Loops = {TRUE, FALSE}
  Scales = {}
SPECIFICATION Spec
SYMMETRY MCSymmetry
INVARIANTS
  SessionTypeOK
  FrameIsDelivered
  LoopingAlwaysShows
  NothingLeaks
PROPERTIES
  StreamSpec
