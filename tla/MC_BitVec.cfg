\* Element counts 2 (static) and 4 (two heap words) are whole words; the
\* bitvec_count run takes one that is not.  Three addresses let a copy
\* assignment between two heap-backed objects allocate before it frees.
CONSTANTS
  Vecs = {va, vb}
  Addrs = {a1, a2, a3}
  Null = Null
  Unset = Unset
  SIZEBITS = 2
  STATICBITS = 2
  Sizes = {2, 4}
SPECIFICATION Spec
SYMMETRY Sym
INVARIANT StorageOwned
PROPERTY BitVecRefinement
