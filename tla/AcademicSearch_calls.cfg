SPECIFICATION FairSpec
CONSTANTS
  r1 = r1
  r2 = r2
  e1 = e1
  e2 = e2
  other = other
  none = none
  year = year
  p1 = p1
  p2 = p2
  Requests = {r1, r2}
  Engines = {e1, e2}
  Concurrency = 1
  GateSize = 1
  Ranges = {none, year}
  NoRange = none
  Enhance = TRUE
  Pages = {1}
  Names = {e1, e2, other}
  Papers = {p1, p2}
  Calls <- MCCalls
INVARIANTS SubsetHonoursRange FailuresAreRecorded
PROPERTIES TimeoutIsFinal CallReturns
CHECK_DEADLOCK FALSE
