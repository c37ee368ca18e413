\* Two descriptors with a slot and one without; generations wrap; no reaper.
CONSTANTS
  t1 = t1  t2 = t2  f1 = f1  f2 = f2  f3 = f3
  Main = Main  NoThread = NoThread  NoJob = NoJob
  Fd = {f1, f2, f3}
  OutOfRange = {f3}
  Worker = {t1, t2}
  MaxConn = 3
  BatchSize = 2
  QueueLimit = 1
  GenModulus = 2
  Upgrades = TRUE
  Reaping = FALSE
SPECIFICATION Spec
INVARIANTS
  Tokens OwnSlot
SYMMETRY WorkerSymmetry
CHECK_DEADLOCK FALSE
