SPECIFICATION FairSpec
CONSTANTS
  numOfThreadWorkers = 2
  MaxTasks = 1
  StartsEarly = FALSE
  NullRef = NullRef
PROPERTY ShutDownCompletes
CHECK_DEADLOCK FALSE
