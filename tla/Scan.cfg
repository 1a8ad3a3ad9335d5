\* Two pairs of signatures at most, and every way a part of a scan may fail.
CONSTANTS
  p = p  q = q  r = r  f = f  g = g  h = h
  Path = {p, q, r}
  File = {f, g, h}
  Content = {1, 2}
  Requests <- FewRequests
  MaxFrames = 3  Threshold = 2
SPECIFICATION Spec
INVARIANTS TypeOK CheckedIsEarned HitsAreKept EveryPathOnce ExitIsHonest
CHECK_DEADLOCK FALSE
