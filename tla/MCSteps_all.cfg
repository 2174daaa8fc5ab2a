CONSTANTS
  Server = {s1, s2, s3}
  Granted = {s1, s2}
  MaxRedirects = 2
  Timeout = 2
  Idle = 2
  MaxBytes = 2
  MaxChunk = 2
  Entry = {e1, e2}
  Inode = {i1, i2, dir, fifo}
  Folders = {dir}
  Pipes = {fifo}
  Ceiling = 2
  Caps = {1, 4}
  MaxLine = 2
  LongestFile = 4
  MaxMoves = 2
  ReadMax = 4
  MaxFile = 5
  MaxChanges = 2
SPECIFICATION StepsSpec
INVARIANTS
  HopsAreGated
  ChainOnlyNarrows
  BudgetBoundsTheChain
  ReadsWhatWasShown
  HonestAnswer
  EditKeepsTheRest
PROPERTIES
  NothingHangs
\* A step that has answered does nothing more.
CHECK_DEADLOCK FALSE
