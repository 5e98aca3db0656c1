\* Three elements in 2-bit words: the second word has one padding bit,
\* which Set () sets too.
CONSTANTS
  Vecs = {va, vb}
  Addrs = {a1, a2, a3}
  Null = Null
  Unset = Unset
  SIZEBITS = 2
  STATICBITS = 2
  Sizes = {3}
SPECIFICATION Spec
SYMMETRY Sym
PROPERTY BitVecRefinement
