CONSTANTS
  Chunk = {t}
  Call = {c1, c2}
  Streaming = FALSE
  MaxRounds = 0
  MaxAttempts = 0
  MaxTurns = 2
  MaxEvents = 2
  MaxSteps = 2
SPECIFICATION Spec
SYMMETRY Symmetry
INVARIANTS
  Replayable
  AfterTheCut
  AnswersShown
PROPERTIES
  Implements
  CutIsFinal
\* After the last turn the model has nothing left to do.
CHECK_DEADLOCK FALSE
