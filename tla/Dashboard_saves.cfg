SPECIFICATION MCSpec
CONSTANTS
  Scenarios <- MCScenarios
  Viewers = {v1, v2, v3}
  CacheTTL = 2
  MaxHours = 6
INVARIANTS
  SourcesAreTrue
  SavedIsKept
  TornIsBackedUp
  VendorIsSpared
CHECK_DEADLOCK FALSE
