CONSTANTS
  Stream = {1, 3}
  FileSize = 2
  FrameMax = 1
  InitWindow = 2
  WindowSpan = 8
  Setting = {1, 3}
  Increment = {2}
  World <- Worlds
SPECIFICATION FairSpec
INVARIANTS WireOrder Rearmed ResponseShape FileOwned WindowsKept
PROPERTIES EveryAnswer Yields
CHECK_DEADLOCK FALSE
