\* Callers of these classes may stop calling at any point, so a state with
\* no enabled step (for instance every refcount address live) is not an
\* error of the code.
CONSTANTS
  Unset = Unset
  Null = Null
  Nodes = {n1, n2, n3}
  Threads = {t1, t2}
  Objects = {o1, o2}
  None = None
  Stub = Stub
  Vecs = {va, vb}
SPECIFICATION Spec
SYMMETRY Sym
CHECK_DEADLOCK FALSE
INVARIANT NoUndefinedAccess
INVARIANT WellLinked
INVARIANT NoUseAfterFree
INVARIANT DeletedAtMostOnce
INVARIANT CountWithinLimit
INVARIANT BinarySearchFinds
INVARIANT SortsInput
INVARIANT StackBounded
INVARIANT HeapSortSorts
INVARIANT ListConsistent
INVARIANT IteratorSafe
INVARIANT Log2Agrees
INVARIANT ZipRoundTrip
INVARIANT ArraysOwned
PROPERTY FifoRefinement
INVARIANT NoQueueOverflow
PROPERTY QueueRefinement
PROPERTY HashRefinement
PROPERTY EventuallyFreed
PROPERTY VectorRefinement
PROPERTY Terminates
PROPERTY FixedVectorRefinement
