SPECIFICATION FairSpec
CONSTANTS
  numOfThreadWorkers = 2
  MaxTasks = 3
  StartsEarly = TRUE
  NullRef = NullRef
INVARIANTS TypeOK TasksInOnePlace
PROPERTIES WorkersStay BusyWorkerEmptiesQueue
CHECK_DEADLOCK FALSE
