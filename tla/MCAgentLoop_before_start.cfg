CONSTANTS
  Chunk = {t}
  Call = {c1, c2}
  Streaming = TRUE
  MaxRounds = 1
  MaxAttempts = 1
  MaxTurns = 1
  MaxEvents = 1
  MaxSteps = 2
SPECIFICATION Spec
SYMMETRY Symmetry
INVARIANTS
  BeforeStartIsTrue
\* After MaxTurns turns the model has nothing left to do.
CHECK_DEADLOCK FALSE
