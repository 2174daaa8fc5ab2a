CONSTANTS
  Server = {s1, s2, s3}
  Granted = {s1, s2}
  MaxRedirects = 2
  Timeout = 2
  Idle = 2
  MaxBytes = 2
  MaxChunk = 2
SPECIFICATION Spec
INVARIANTS
  WithdrawnMeansNothingRan
\* A request that has answered does nothing more.
CHECK_DEADLOCK FALSE
