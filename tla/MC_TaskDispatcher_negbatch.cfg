CONSTANTS
  w1 = w1
  w2 = w2
  w3 = w3
  Workers <- MCWorkers
  MaxJobs = 5
  DefaultConcurrencies = {2}
  Templates <- MCNegativeTemplates
  NThreads = 3

SPECIFICATION Spec
SYMMETRY MCSymmetry

\* a template "2/-1": ParseTemplate gives batch -1 (atoi)
INVARIANT OnlyJobIndices


\* every worker's loop ends once its source is exhausted: the operation is over
CHECK_DEADLOCK FALSE
