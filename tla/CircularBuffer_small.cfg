\* Initial lengths 1 and 0 (0 is also what the move constructor leaves behind).
CONSTANTS
  Values = {v1, v2}
  Unset = Unset
  InitialSizes = {0, 1}
  GrowNum = 3
  GrowDen = 2
  MaxUsed = 5
SPECIFICATION Spec
INVARIANT NoUndefinedAccess
