\* The least ratio of good frames, at ratio 1.
CONSTANTS
  Clips <- EightFrames
  Ratios <- OneRatio
  thdi = 0
  thit <- Any
SPECIFICATION Spec
INVARIANT RatioKeptUp
CHECK_DEADLOCK FALSE
