\* As MC_Vector_leftmost.cfg: keys 0..2, up to four elements, initial limit
\* two, so that both an Insert within the limit and one that reallocates
\* occur.
CONSTANTS
  Values = {0, 1, 2}
  MaxCount = 4
  InitialLimit = 2
SPECIFICATION Spec
INVARIANT InsertPlacesValue
