\* Every two of the good files, and a refused one before or after a good one.
CONSTANTS
  opening = opening  rest = rest
  Word <- SomeWords
  Sig <- SmallFrames
  Files <- AllFiles
  Walks <- FewWalks
  thworddist = 9000  thcomposdist = 60000  thl1 = 2
  COARSE_SIZE = 90
SPECIFICATION FairSpec
INVARIANTS NeverPastTheEnd SegmentsAreSpans SharedIsFound BestOfAll
PROPERTY SearchEnds
CHECK_DEADLOCK FALSE
