SPECIFICATION FairSpec
CONSTANTS
  Node = {n1}
  Sweeper = sw
  Handler = {h1}
  OfflineAfter = 1
  Overlap = TRUE
  Restarts = FALSE
  DBFails = FALSE
  MaxTime = 3
  MaxCrossing = 1
INVARIANT TypeOK
INVARIANT Armed
INVARIANT KeysCovered
PROPERTY OutageReported
PROPERTY DeletedForgotten
