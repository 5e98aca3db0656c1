\* Four threads give three child slots, so LimitConcurrency can cut them to
\* none, one or two; two waiters and two notifiers give every order of a
\* test of the predicate against a mutator's change and its notify; two
\* strings and three addresses let an assignment, a SubString or a Leak
\* need a buffer while both strings hold one.  EscapedStringBuilder_T keeps
\* the code's GROW_STEP and GrowEnough ( 32 ); texts of two characters and
\* buffers with up to five free cells reach the grow inside each loop.
CONSTANTS
  NThreads = 4
  MaxJobs = 4
  DistThreads = {0, 1, 2, 3}
  Goal = 2
  wa = wa
  wb = wb
  n1 = n1
  n2 = n2
  Strs = {s1, s2}
  Addrs = {a1, a2, a3}
  Null = Null
  Empty = Empty
  NullStr = NullStr
  UnquoteAny = FALSE
  MaxText = 2
  MaxUsed = 1
  MaxSlack = 5
  GROW_STEP = 64
  LOOP_GROW = 32
SPECIFICATION Spec
SYMMETRY Sym
INVARIANT ContextsExclusive
INVARIANT FinalizeCollectsAll
INVARIANT MergeOrderByJobId
INVARIANT BuffersOwned
INVARIANT WritesInAllocation
INVARIANT AppendsEncoding
PROPERTY EveryWaiterReturns
PROPERTY StringRefinement
\* After Finalize the operation is over; once every waiter returned and
\* every notifier made its calls there is nothing left to do; a caller of
\* CSphString may stop calling at any point; an append is over once done.
CHECK_DEADLOCK FALSE
