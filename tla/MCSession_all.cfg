CONSTANTS
  Step = {s1, s2}
  Subject = {x, y, z}
  Allowed = {}
  Denied = {z}
  Unkept = {y}
  ArmDelay = 2
  Plugin = {"tool", "shell"}
  MaxAnswers = 2
  Char = {"a", " ", "e"}
  MaxText = 2
  MaxHistory = 2
  Areas <- MCAreas
  Screens <- MCScreens
  Asked <- MCAsked
  MaxEntries = 3
  MaxRevision = 3
SPECIFICATION SessionSpec
INVARIANTS
  PromptsAreOpen
  RuleMeansItsPath
  AnswersStayNarrow
  LineIsKept
  FrameIsTrue
PROPERTIES
  Deliberate
  ExitEnds
\* A policy that refuses to compile judges nothing.
CHECK_DEADLOCK FALSE
