SPECIFICATION StoreSpec
CONSTANTS
  a = a
  b = b
  Collections = {a, b}
  Keys = {1, 2, 3}
  NoKey = 0
  Unset = {0, 2}
  Capacity <- Capacities
  NoFile = NoFile
  NoNode = NoNode
INVARIANTS SearchFinds EntriesPointToKeys PointersAgree
PROPERTIES AppendsAtEnd OpenedIndexesFile IndexIsABag
