SPECIFICATION FairSpec
CONSTANTS
  c1 = c1
  c2 = c2
  Clients = {c1, c2}
  MaxRequests = 2
  TextParts = 3
  GarbageSizes = {0, 1, 3}
  Stray = Stray
  None = None
INVARIANTS TypeOK AnswersMatch DiesOnlyByCutOrDeparture
PROPERTIES ServedClientKept RequestAnswered
CHECK_DEADLOCK FALSE
