SPECIFICATION FairSpec
CONSTANTS
  k1 = k1
  k2 = k2
  Keys = {k1, k2}
  v1 = v1
  v2 = v2
  Values = {v1, v2}
  n1 = n1
  n2 = n2
  Collections = {n1, n2}
  i1 = i1
  i2 = i2
  Ids = {i1, i2}
  ForeignTexts <- OtherTexts
  Database = "currencyDB"
  User = "currencyUser"
  Collection = "currencyCollection"
  NotJson = NotJson
  NoMessage = NoMessage
INVARIANTS AnswerIsForCall 
PROPERTY CallsAnswered
CHECK_DEADLOCK FALSE
