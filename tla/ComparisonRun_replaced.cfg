\* Inputs may be rewritten between ledgerNoteInput and binary_import.
CONSTANTS
  a = a  b = b  c = c  r1 = r1  r2 = r2
  Proc = {p1}  NoProc = NoProc
  Worker = {w1, w2}
  Path = {a, b, c}
  Content = {c1, c2}  NoContent = NoContent
  Run = {r1}  NoRun = NoRun
  Commands <- OneList
  Legacy = {}  Fuses = {}
  LineBuffered = TRUE
  ReplaceDuringRun = TRUE
SPECIFICATION Spec
PROPERTY AcceptedSkipsAreOfTheInputs
