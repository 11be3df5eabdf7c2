SPECIFICATION FairSpec
CONSTANTS
  ct = ct
  cu = cu
  h1 = h1
  h2 = h2
  Isp <- TwoIsps
  Hosts <- Candidates
  NoHost = NoHost
  TTL = 2
  Every = 1
  Count = 2
INVARIANT TypeOK
INVARIANT OneRound
PROPERTY Recovers
