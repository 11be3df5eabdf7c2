SPECIFICATION Spec
CONSTANTS
  Lister = {l1, l2, l3, l4}
  Saver = {}
  Editor = {}
  MaxConns = 4
  MaxLoads = 2
SYMMETRY Symmetry
INVARIANT NeverStuck
