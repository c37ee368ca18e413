\* Two to four workers, three descriptors, a queue of two, every failure and
\* an early signal.  Symmetric in the threads and in the descriptors.
CONSTANTS
  w1 = w1  w2 = w2  w3 = w3  w4 = w4  w5 = w5  w6 = w6
  e1 = e1  e2 = e2  e3 = e3
  NoEvent = NoEvent
  Worker = {w1, w2, w3, w4}
  Event = {e1, e2, e3}
  MinThreads = 2
  MaxThreads = 4
  QueueLimit = 2
  MayFail = {"start", "scale", "alloc"}
  EarlySignal = TRUE
SPECIFICATION Spec
INVARIANTS
  TypeOK PoolCounts Handover
PROPERTY ChannelSpec
SYMMETRY WorkerSymmetry
CHECK_DEADLOCK FALSE
