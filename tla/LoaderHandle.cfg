\* Two threads, two loader handles, two image handles, a readable and an unreadable path.
CONSTANTS
  Threads = {t1, t2}
  LoaderBoxes = {l1, l2}
  ImageBoxes = {i1}
  Hints = {"png"}
  Probe = 4
  LimitFields = {"max_pixels", "max_frames"}
  Options = {"sandbox"}
  Given = {"given"}
  Files <- MCFiles
SPECIFICATION Spec
SYMMETRY MCSymmetry
INVARIANTS
  EveryBoxHasOneOwner
  MessageIsKept
PROPERTIES
  BuilderSpec
