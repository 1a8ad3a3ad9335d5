\* Two workers share out the pairs of lists that grow, are reordered, name a
\* file twice or come with -n; two builds, contents that change between runs,
\* lines that fuse, and a stream that is not line buffered.
CONSTANTS
  a = a  b = b  c = c  r1 = r1  r2 = r2
  Proc = {p1}  NoProc = NoProc
  Worker = {w1, w2}
  Path = {a, b, c}
  Content = {c1, c2}  NoContent = NoContent
  Run = {r1, r2}  NoRun = NoRun
  Commands <- MoreLists
  Legacy <- OldPair
  Fuses <- Spelling
  LineBuffered = FALSE
  ReplaceDuringRun = FALSE
SYMMETRY Symmetry
SPECIFICATION Spec
INVARIANTS TypeOK IInv ComparedOnce RecordedIsAsNoted SkipsAreCurrent FinishedIsComplete
