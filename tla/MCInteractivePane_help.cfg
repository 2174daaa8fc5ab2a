CONSTANTS
  Chunk = {t, u}
  Call = {c1}
  Streaming = TRUE
  MaxRounds = 2
  MaxAttempts = 2
  MaxTurns = 1
  MaxEvents = 2
  MaxSteps = 0
  MaxTraces = 1
SPECIFICATION PaneSpec
INVARIANTS
  PaneIsTranscript
\* After MaxTurns turns the model has nothing left to do.
CHECK_DEADLOCK FALSE
