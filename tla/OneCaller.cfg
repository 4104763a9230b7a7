SPECIFICATION FairSpec
CONSTANTS
  c1 = c1
  Callers = {c1}
  MaxCalls = 3
  Bodies <- AllBodies
  Marked <- MarkedBodies
  DanglingSizes <- WrongSizes
  ConnectMayFail = TRUE
  CallersMayStall = TRUE
  SizeOf <- Sizes
  SizeLimit = 10
  NotANumber = NotANumber
  NoMessage = NoMessage
  NullRef = NullRef
INVARIANTS TypeOK LockStep AtMostOnce NoAnswerLost OnlyWholeTextsExecuted CrashCauses
PROPERTIES RequestsAreProcessed CallsReturn
CHECK_DEADLOCK FALSE
