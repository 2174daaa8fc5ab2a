CONSTANTS
  Capacity = 2
  MaxLine = 5
  MaxRead = 2
  Cap = 1
  MaxItems = 2
  MaxChunks = 3
SPECIFICATION FairSpec
INVARIANTS
  DeliveredInOrder
PROPERTIES
  IsEventStream
  BothStop
