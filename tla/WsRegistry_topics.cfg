SPECIFICATION Spec
CONSTANTS
  news = news
  chat = chat
  alice = alice
  cut = cut
  w1 = w1
  w2 = w2
  Worker = {w1, w2}
  Bridge = Bridge
  Maint = Maint
  None = None
  Fd = {f1, f2}
  Topic <- Topics
  Hash <- Apart
  Name <- Names
  Slot <- Short
  CutSlot <- Short
  Ops = {"pub", "sub", "close"}
  MaxClients = 2
  MaxTopics = 1
  MaxConn = 2
SYMMETRY Same
CHECK_DEADLOCK FALSE
INVARIANT NoDangling
