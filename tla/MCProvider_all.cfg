CONSTANTS
  MaxBlocks = 2
  MaxLineBytes = 3
  MaxEventBytes = 4
  ExcerptCap = 2
  Longest = 8
  LongestAnswer = 2
  MaxRounds = 2
  MaxAttempts = 3
  MaxTurns = 2
  InitialBackoff = 2
  MaxBackoff = 3
  MaxRequests = 3
SPECIFICATION ProviderSpec
INVARIANTS
  AgreesWithBuffered
  ChunksCarryNoMeaning
  VendorSeesItsOwn
  RetryRepeats
\* A message that is over has no next event, a body that is over no next chunk.
CHECK_DEADLOCK FALSE
