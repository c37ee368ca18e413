SPECIFICATION Spec
CONSTANTS
  news = news
  chat = chat
  alice = alice
  cut = cut
  w1 = w1
  w2 = w2
  Worker = {w1}
  Bridge = Bridge
  Maint = Maint
  None = None
  Fd = {f1, f2}
  Topic <- OneTopic
  Hash <- OnePlace
  Name <- Names
  Slot <- Short
  CutSlot <- Short
  Ops = {"auth", "private", "broadcast", "pub", "sub", "pong", "close",
         "ipc", "identity", "silent"}
  MaxClients = 1
  MaxTopics = 2
  MaxConn = 2
CHECK_DEADLOCK FALSE
INVARIANT Tables
