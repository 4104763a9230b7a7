SPECIFICATION Spec
CONSTANTS
  c1 = c1
  c2 = c2
  Callers = {c1, c2}
  MaxCalls = 2
  Bodies <- PlainBodies
  Marked <- NoBodies
  DanglingSizes <- NoSizes
  ConnectMayFail = FALSE
  CallersMayStall = TRUE
  SizeOf <- Sizes
  SizeLimit = 10
  NotANumber = NotANumber
  NoMessage = NoMessage
  NullRef = NullRef
PROPERTY Promise
CHECK_DEADLOCK FALSE
