\* Two processes, two builds, one ledger: lock, refusal, kills, failed writes,
\* lines that fuse, and the end of it all.
CONSTANTS
  a = a  b = b  c = c  r1 = r1  r2 = r2
  Proc = {p1, p2}  NoProc = NoProc
  Worker = {w1, w2}
  Path = {a, b, c}
  Content = {c1}  NoContent = NoContent
  Run = {r1, r2}  NoRun = NoRun
  Commands <- TwoBuilds
  Legacy <- OldPair
  Fuses <- Spelling
  LineBuffered = TRUE
  ReplaceDuringRun = FALSE
SPECIFICATION PersistentSpec
INVARIANT OneHolder
PROPERTIES ImplementsBatch EveryRunEnds ResumingCompletes
