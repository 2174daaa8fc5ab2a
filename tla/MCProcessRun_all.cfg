CONSTANTS
  Max = 1
  PipeSize = 1
  MaxInput = 2
  MaxOutput = 3
SPECIFICATION FairSpec
INVARIANTS
  NoOrphans
  OutputIsTold
PROPERTIES
  RunEnds
\* A step that has answered, and a child that has ended, do nothing more.
CHECK_DEADLOCK FALSE
