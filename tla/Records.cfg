SPECIFICATION Spec
CONSTANTS
  r1 = r1
  r2 = r2
  x = x
  y = y
  Objects = {r1, r2}
  TextFields <- MCTextFields
  Size <- MCSize
  KeyTail = 1
  Nul = Nul
  BEGKEY = BEGKEY
  CONKEY = CONKEY
  NINES = NINES
  Texts <- MCTexts
  Numbers <- MCNumbers
  MaxCalls = 5
  Unknown = Unknown
  None = None
SYMMETRY Symmetry
INVARIANTS AsGiven ShownWasHeld FailsOnlyUntyped
CHECK_DEADLOCK FALSE
