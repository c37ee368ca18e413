SPECIFICATION Spec
CONSTANTS
  news = news
  chat = chat
  alice = alice
  cut = cut
  w1 = w1
  w2 = w2
  Worker = {w1, w2}
  Bridge = Bridge
  Maint = Maint
  None = None
  Fd = {f1, f2}
  Topic <- OneTopic
  Hash <- OnePlace
  Name <- Names
  Slot <- Short
  CutSlot <- Short
  Ops = {"auth", "private", "close"}
  MaxClients = 2
  MaxTopics = 2
  MaxConn = 2
SYMMETRY Same
CHECK_DEADLOCK FALSE
INVARIANT Addressed
