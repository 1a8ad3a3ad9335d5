\* A scan with progress lines and a quiet one want profiles of one video.
CONSTANTS
  s1 = s1  s2 = s2  c1 = c1  c2 = c2
  Scan = {s1, s2}  NoScan = NoScan  Loud = s1
  Calls <- FewCalls
  Content = {c1, c2}  Unsupported = {}  Seen = {c1}
  Name = {n1, n2, n3}
  None = None
  MaxId = 2
  Message <- Messages
  Starting = "starting"  Failed = "failed"
  Nobody = Nobody  Nothing = "nothing"
SPECIFICATION FairSpec
INVARIANTS GivenIsRight AnalyzesOnlyWhatIsMissing TellsTheStage LastWordIsLast
PROPERTY EveryAnalysisEnds
CHECK_DEADLOCK FALSE
