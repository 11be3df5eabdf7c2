SPECIFICATION Spec
CONSTANTS
  Node = {n1}
  NoNode = NoNode
  Poster = {p1}
  Admin = {a1}
  PersistEvery = 2
  Retention = 2
  HistoryCap = 2
  Day = 1
  MaxWalk = 2
  Periods = {1}
  Quotas = {0}
  AgentTimesOut = FALSE
  DBFails = FALSE
  IfacesVanish = TRUE
  MaxTime = 5
  MaxBytes = 2
  MaxRotate = 0
INVARIANT NoRetroactiveCharge
