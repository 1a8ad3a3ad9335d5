\* Two scans, one video that is replaced, two versions of ffmpeg.
CONSTANTS
  Proc = {p1, p2}  NoProc = NoProc
  Path = {v}
  Content = {c1, c2}
  Setting = {s}  Rounded = {}
  Tool = {t1, t2}
  Gen = {g1, g2}  Old = {}
  None = None
  MaxId = 2
SYMMETRY Symmetry
SPECIFICATION Spec
INVARIANTS TypeOK StoreInv RowsAreTrue HeldIsRight KnownIsCurrent DecodesOnlyWhatIsMissing
