SPECIFICATION FairSpec
CONSTANTS
  c1 = c1
  Callers = {c1}
  MaxCalls = 2
  Bodies <- PlainBodies
  Marked <- NoBodies
  DanglingSizes <- NoSizes
  ConnectMayFail = FALSE
  CallersMayStall = TRUE
  SizeOf <- Sizes
  SizeLimit = 10
  NotANumber = NotANumber
  NoMessage = NoMessage
  NullRef = NullRef
PROPERTY EveryCallReturns
