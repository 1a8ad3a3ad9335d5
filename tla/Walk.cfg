\* Every seed of two pairs of clips, at five ratios.
CONSTANTS
  Clips <- ShortClips
  Ratios <- ManyRatios
  thdi = 0
  thit <- Any
SPECIFICATION Spec
INVARIANTS InStep NoFrameTwice SectionIsWalked WholeIsTheOverlap
CHECK_DEADLOCK FALSE
