\* One signal, which may land inside a region.
CONSTANTS
  t1 = t1  t2 = t2
  Main = Main  Free = Free
  Worker = {t1, t2}
  Signals = 1
  Anywhere = TRUE
SPECIFICATION Spec
INVARIANT AsyncSignalSafe
CHECK_DEADLOCK FALSE
