CONSTANTS
  Chunk = {t, u}
  Call = {c1}
  Streaming = TRUE
  MaxRounds = 2
  MaxAttempts = 2
  MaxTurns = 1
  MaxEvents = 2
  MaxSteps = 0
  MaxTraces = 1
  Pair = {"k1", "k2"}
  MaxPresses = 3
  MaxPanics = 2
  CommandLines <- MCCommandLines
  RuleFiles <- MCRuleFiles
  Installations <- MCInstallations
SPECIFICATION FrontendSpec
SYMMETRY Symmetry
INVARIANTS
  TranscriptIsShown
  GovernedInOrder
  StatusTellsTheRun
  TerminalIsRestored
\* After MaxTurns turns the pane has nothing left to show, after its exit a run or a session
\* nothing to do.
CHECK_DEADLOCK FALSE
