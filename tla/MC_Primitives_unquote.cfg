\* CSphString::Unquote called on a string whose whole text is one quote
\* character.
CONSTANTS
  NThreads = 4
  MaxJobs = 4
  DistThreads = {0, 1, 2, 3}
  Goal = 2
  wa = wa
  wb = wb
  n1 = n1
  n2 = n2
  Strs = {s1, s2}
  Addrs = {a1, a2, a3}
  Null = Null
  Empty = Empty
  NullStr = NullStr
  UnquoteAny = TRUE
  MaxText = 2
  MaxUsed = 1
  MaxSlack = 5
  GROW_STEP = 64
  LOOP_GROW = 32
SPECIFICATION Spec
SYMMETRY Sym
INVARIANT BuffersOwned
CHECK_DEADLOCK FALSE
