SPECIFICATION MCSpec
CONSTANTS
  r1 = r1
  r2 = r2
  Requests = {r1, r2}
  Kinds = {"plain", "ddg", "arxiv", "dblp"}
  PerSec = 2
  PerMin = 4
  Second = 1
  Minute = 3
  MinInterval = 2
  MaxDelay = 1
  Cooldown = 1
  CooldownMax = 3
  RetryAfters = {0, 4}
  Budget = 3
  Estimate = 1
  Lifetime = 2
  MaxTime = 4
  DdgTime = 3
  Searches = {r1, r2}
  Sites = {"semantic", "anonymous", "scholar", "pubmed", "single"}
  Chain = 2
  MaxPosted = 13
SYMMETRY Symmetry
INVARIANTS RateKept SessionRotated UpstreamBounded
PROPERTIES CooldownStopsSearches KeyGivenUpOnEvidence
CHECK_DEADLOCK FALSE
