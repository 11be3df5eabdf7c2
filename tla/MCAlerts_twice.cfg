SPECIFICATION Spec
CONSTANTS
  Node = {n1}
  Sweeper = sw
  Handler = {h1}
  OfflineAfter = 1
  Overlap = TRUE
  Restarts = FALSE
  DBFails = FALSE
  MaxTime = 3
  MaxCrossing = 0
PROPERTY OncePerOutage
