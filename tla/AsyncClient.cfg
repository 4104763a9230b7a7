SPECIFICATION FairSpec
CONSTANTS
  NumEndpoints = 2
  MaxLines = 2
INVARIANTS TypeOK ActorsLive NothingAwaitedForEver
PROPERTIES AwaitedEnds StopCompletes
CHECK_DEADLOCK FALSE
