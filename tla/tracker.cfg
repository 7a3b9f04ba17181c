SPECIFICATION Spec
CONSTANTS
  ColorCount = 3
  Recognitions = {r1, r2, r3, r4}
  Confidences = {1, 2}
  MaxResults = 4
SYMMETRY RecognitionSymmetry
INVARIANT TrackerInv
PROPERTY StrongTracksAreKept
