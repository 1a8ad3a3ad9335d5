\* Two scans of one video under two settings, one of which older programs gave
\* a rounded name; an index of theirs may have both rows name one file.
CONSTANTS
  Proc = {p1, p2}  NoProc = NoProc
  Path = {v}
  Content = {c}
  Setting = {s, r}  Rounded = {r}
  Tool = {t}
  Gen = {g}  Old = {o}
  None = None
  MaxId = 1
SPECIFICATION FairSpec
INVARIANT HeldIsRight
PROPERTIES LocksAreReleased
