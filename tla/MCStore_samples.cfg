SPECIFICATION FairSpec
CONSTANTS
  Node = {n1}
  NoNode = NoNode
  Poster = {p1}
  Admin = {a1}
  PersistEvery = 2
  Retention = 2
  HistoryCap = 1
  Day = 1
  MaxWalk = 2
  Periods = {0, 1}
  Quotas = {0}
  AgentTimesOut = FALSE
  DBFails = TRUE
  IfacesVanish = FALSE
  MaxTime = 4
  MaxBytes = 1
  MaxRotate = 1
INVARIANT TypeOK
INVARIANT SampleSpacing
PROPERTY ExpiredPruned
