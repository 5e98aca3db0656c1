\* Task manager: two callers and the timer thread, a class with ceiling one
\* and an unlimited class, two calls per caller.  Dispatchers: five jobs
\* with batch 2 and concurrency 3 give every round-robin fiber a full
\* batch, a partial one and an empty share; three workers against
\* concurrency 1 give surplus null sources; unset concurrency takes the
\* NThreads fallback.
CONSTANTS
  c1 = c1
  c2 = c2
  tmr = tmr
  Callers <- MCCallers
  Timer <- tmr
  Limits <- MCLimits
  MaxCalls = 2
  w1 = w1
  w2 = w2
  w3 = w3
  MaxJobs = 5
  NThreads = 3

SPECIFICATION CoreSpec
SYMMETRY CoreSymmetry

INVARIANT CountersMatchJobs
INVARIANT CeilingOvershootBounded
INVARIANT NoJobTwice
INVARIANT OnlyJobIndices
INVARIANT RoundRobinPartition
PROPERTY EventuallyIdle
PROPERTY JobPoolRefinement

\* Once the callers have used their bounded calls and every job has run,
\* the daemon is quiescent, and a dispatch is over once every worker's
\* source is exhausted; EventuallyIdle checks that no job or StartJob call
\* is left stuck before that point.
CHECK_DEADLOCK FALSE
