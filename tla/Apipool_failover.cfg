SPECIFICATION Spec
CONSTANTS
  r1 = r1
  r2 = r2
  Requests = {r1, r2}
  Pools <- MCPools
  NumKeys <- MCNumKeys
  InvalidTTL = 2
  MaxTime = 1
  NumProviders = 3
  Strategies = {"weighted"}
  ZeroWeight = {1}
  SoftErrors = TRUE
  LengthLimited = {1}
  LongQueries = TRUE
INVARIANTS CallsBounded
PROPERTIES FailoverPromise
