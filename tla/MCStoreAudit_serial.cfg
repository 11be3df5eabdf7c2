SPECIFICATION AuditSpec
CONSTANTS
  Node = {n1}
  NoNode = NoNode
  Poster = {p1}
  Admin = {a1}
  PersistEvery = 2
  Retention = 2
  HistoryCap = 2
  Day = 1
  MaxWalk = 2
  Periods = {1, 2}
  Quotas = {0}
  AgentTimesOut = FALSE
  DBFails = TRUE
  IfacesVanish = FALSE
  MaxTime = 3
  MaxBytes = 2
  MaxRotate = 0
INVARIANT RingOK
INVARIANT NoRetroactiveCharge
INVARIANT UsedExact
INVARIANT PeriodReanchored
INVARIANT DeletedLeavesNothing
PROPERTY RolloverOnly
