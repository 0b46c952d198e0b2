SPECIFICATION FairSpec
CONSTANTS
  r1 = r1
  r2 = r2
  Requests = {r1, r2}
  Pools <- OnePool
  NumKeys <- TwoKeys
  InvalidTTL = 1
  MaxTime = 2
  NumProviders = 2
  Strategies = {"round-robin", "priority"}
  ZeroWeight = {}
  SoftErrors = FALSE
  LengthLimited = {}
  LongQueries = FALSE
INVARIANTS OnlyFailedKeysCool
PROPERTIES CooldownServed CoolingKeyOnlyAsLastResort SearchReturns
