\* A vector image, two loads that race for the loader, one call for a frame.
CONSTANTS
  Loads = {l1, l2}
  Gets = {g1}
  Frames = 1
  Vector = TRUE
  Modes <- MCModes
  Applies = {FALSE}
  Accepts = {"narrow"}
  Loops = {}
  Scales = {"other"}
SPECIFICATION Spec
INVARIANTS
  LoaderIsConsumedOnce
  NoUseAfterFree
  RerenderLikeLoad
  LoopingAlwaysShows
PROPERTIES
  CallsAreAnswered
