CONSTANTS
  FileSize = 2
  Capacity = 3
  World <- Worlds
SPECIFICATION FairSpec
INVARIANTS ResponsesWhole RequestKept InOrder
PROPERTIES Progress
CHECK_DEADLOCK FALSE
