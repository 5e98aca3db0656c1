CONSTANTS
  c1 = c1
  c2 = c2
  tmr = tmr
  Callers <- MCCallers
  Timer <- tmr
  Limits <- MCLimits
  MaxCalls = 2

SPECIFICATION Spec

INVARIANT CeilingRespected

CHECK_DEADLOCK FALSE
