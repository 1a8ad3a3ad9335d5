\* The names of the files allow the halves of two lines to spell a third one.
CONSTANTS
  a = a  b = b  c = c  r1 = r1  r2 = r2
  Proc = {p1}  NoProc = NoProc
  Worker = {w1, w2}
  Path = {a, b, c}
  Content = {c1}  NoContent = NoContent
  Run = {r1}  NoRun = NoRun
  Commands <- OneList
  Legacy = {}
  Fuses <- Spelling
  LineBuffered = TRUE
  ReplaceDuringRun = FALSE
SPECIFICATION Spec
INVARIANT MarkedIsPrinted
