\* One thread loads tga files by path and from memory.
CONSTANTS
  Threads = {t1}
  LoaderBoxes = {l1}
  ImageBoxes = {i1}
  Hints = {"tga", "ico"}
  Probe = 4
  LimitFields = {"max_pixels"}
  Options = {"sandbox"}
  Given = {"given"}
  Files <- MCTgaFiles
SPECIFICATION Spec
INVARIANT ExtensionNamesUnsigned
