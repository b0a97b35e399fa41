\* Frames of up to 3 x 2 pixels with every orientation, tall ones, a vector image, drawings.
CONSTANTS
  Files <- MCFiles
  Accepts <- MCAccepts
  Drawings <- MCDrawings
  Pads = {0, 1}
  U32 = 64
  MaxOutput = 24
SPECIFICATION Spec
INVARIANTS
  OnlyCutRowsPanic
  ViewIsKept
  DeliveredAsAsked
  WrittenAsGiven
