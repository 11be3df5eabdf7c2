SPECIFICATION FairSpec
CONSTANTS
  Client = {c1}
  Session = {s1, s2, s3}
  Login = {g1, g2, g3}
  NoClient = NoClient
  MaxCap = 2
  TTL = 2
  Limit = 2
  Window = 2
  MaxTime = 5
INVARIANT TypeOK
INVARIANT FailuresBounded
PROPERTY LockoutFixed
PROPERTY RefusedOnlyWhenFull
PROPERTY ExpiredSwept
PROPERTY SessionsEndOnce
