CONSTANTS
  SizeCount = 3
  FrameMod = 2
SPECIFICATION LiveSpec
INVARIANTS
  OneFrameTracked
  DetectorFitsImage
PROPERTIES
  ClaimedFrameIsFinished
  ClickIsApplied
CHECK_DEADLOCK FALSE
