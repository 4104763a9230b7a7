SPECIFICATION Spec
CONSTANTS
  c1 = c1
  c2 = c2
  Callers = {c1, c2}
  MaxCalls = 1
  Bodies <- PlainBodies
  Marked <- NoBodies
  DanglingSizes <- NoSizes
  ConnectMayFail = FALSE
  CallersMayStall = FALSE
  SizeOf <- Sizes
  SizeLimit = 10
  NotANumber = NotANumber
  NoMessage = NoMessage
  NullRef = NullRef
INVARIANT NoAnswerLost
CHECK_DEADLOCK FALSE
