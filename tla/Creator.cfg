\* Two host threads and one pool thread share a creator.
CONSTANTS
  Calls = {c1, c2, c3}
  Hosts = {h1, h2}
  Pool = {p1}
  Ops <- MCOps
  U32 = 16
  MaxOutput = 8
  NoCall = NoCall
  NoThread = NoThread
SPECIFICATION Spec
SYMMETRY Symmetry
INVARIANTS
  CreatorTypeOK
  ErrorIsOwn
  RowsAreInside
  EncoderLivesAsLongAsUsed
PROPERTY
  MakerSpec
