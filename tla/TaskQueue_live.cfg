\* Every initial and upscaled worker is born; the signal comes once the
\* event loop runs.  No symmetry: liveness is checked.
CONSTANTS
  w1 = w1  w2 = w2  w3 = w3  w4 = w4  w5 = w5  w6 = w6
  e1 = e1  e2 = e2  e3 = e3
  NoEvent = NoEvent
  Worker = {w1, w2, w3}
  Event = {e1, e2, e3}
  MinThreads = 1
  MaxThreads = 3
  QueueLimit = 2
  MayFail = {"alloc"}
  EarlySignal = FALSE
SPECIFICATION FairSpec
INVARIANT PoolFloor
PROPERTY Drains
CHECK_DEADLOCK FALSE
