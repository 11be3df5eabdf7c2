SPECIFICATION FairSpec
CONSTANTS
  Lister = {l1, l2}
  Saver = {s1}
  Editor = {e1}
  MaxConns = 3
  MaxLoads = 1
INVARIANT TypeOK
INVARIANT NeverStuck
PROPERTY RequestsFinish
