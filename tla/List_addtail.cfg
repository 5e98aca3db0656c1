\* List_t alone over two nodes, checked against the order Add's comment
\* promises.
CONSTANTS
  Nodes = {n1, n2}
  Stub = Stub
  Null = Null

SPECIFICATION Spec

PROPERTY ListRefinement
