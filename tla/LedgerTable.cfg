\* Three lines and up to two more pairs, in tables of 1 to 16 slots.
CONSTANTS
  MaxLines = 3  MaxExtra = 2
  Hash <- Colliding
  Other = Other  Nothing = Nothing
  Files <- ShortFiles
  Extras <- FewExtras
  MinCapacity = 1
SPECIFICATION FairSpec
INVARIANT HalfFull
PROPERTIES IsASet ProbesEnd
