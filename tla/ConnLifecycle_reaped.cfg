\* The reaper closes descriptors that workers use.
CONSTANTS
  t1 = t1  t2 = t2  f1 = f1  f2 = f2  f3 = f3
  Main = Main  NoThread = NoThread  NoJob = NoJob
  Fd = {f1, f2}
  OutOfRange = {}
  Worker = {t1}
  MaxConn = 2
  BatchSize = 2
  QueueLimit = 1
  GenModulus = 4
  Upgrades = TRUE
  Reaping = TRUE
SPECIFICATION Spec
INVARIANTS CloseOwn SocketStays
CHECK_DEADLOCK FALSE
