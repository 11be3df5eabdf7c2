SPECIFICATION Spec
CONSTANTS
  Node = {n1}
  Sweeper = sw
  Handler = {h1}
  OfflineAfter = 1
  Overlap = FALSE
  Restarts = TRUE
  DBFails = TRUE
  MaxTime = 5
  MaxCrossing = 3
PROPERTY OncePerOutage
PROPERTY OncePerCrossing
INVARIANT OfflineHasLastSeen
