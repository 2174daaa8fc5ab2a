CONSTANTS
  Chunk = {t}
  Call = {c1}
  Streaming = TRUE
  MaxRounds = 2
  MaxAttempts = 2
  MaxTurns = 1
  MaxEvents = 2
  MaxSteps = 2
SPECIFICATION FairSpec
INVARIANTS
  TokenIsAuthority
  StdoutIsTranscript
PROPERTIES
  CancelEndsTurn
  TurnEnds
\* After MaxTurns turns the model has nothing left to do.
CHECK_DEADLOCK FALSE
