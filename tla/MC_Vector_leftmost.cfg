\* As MC_Vector.cfg, checking the comment on sphBinarySearchFirst.
CONSTANTS
  Values = {0, 1, 2}
  MaxCount = 4
  InitialLimit = 2
  AliasAny = FALSE
SPECIFICATION Spec
INVARIANT SearchFirstLeftmost
