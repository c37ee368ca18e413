CONSTANTS
  t1 = t1  t2 = t2
  Main = Main  Free = Free
  Worker = {t1}
  Signals = 1
  Anywhere = FALSE
  MaxLog = 2

  a = a  b = b  c = c
  Addr = {a, b, c}
  Size = 2
  Home <- TwoAlike
  Limit = 2
  Idle = 1
  Callers = 2
  LastSecond = 2

  m = m  p = p  u = u
  Name = {m, p}
  Value = {u}
  Static <- StaticTable
  FieldSize <- OneAndTwo
  TableSize = 3
  Entries = 3
  BlockLength = 2

  x = x  y = y
  File <- Contents
  Uri <- Uris
  Segment = {x, y}
  Target = {"one", "two"}
  MaxRoutes = 2
  LastMoment = 2

  Word <- Bits24
  UInt <- Bits20
  Cores <- CoreCounts
  Ram <- RamSizes
  FdLimit <- FdLimits
  FpmLines <- FpmFiles

SPECIFICATION ServicesSpec

INVARIANTS OneEntry NeverTorn QueueDrained
CHECK_DEADLOCK FALSE
