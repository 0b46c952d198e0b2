SPECIFICATION FairSpec
CONSTANTS
  Second = 2
  DayLength = 1
  Retention = 1
  Sample = 20
  Ban = 1
  MaxBan = 2
  Pauses <- Pauses_
  StaleAge = 2
  Calls = {"c1", "c2"}
  Pages = {"page", "other"}
  Papers = {"paper"}
  Locals = {"local"}
  Settings <- All
  Long = {"other"}
  Errors = {"timeout"}
  Specs <- PageSpecs
  WidthCap = 3
  MaxPages = 2
  MaxCount = 5
  MaxBatch = 2
  ChainLimit = 4
  Slack = 1
  FileTTL = 1
  Polls = 2
  EnrichPolls = 1
INVARIANTS
  MetricsMatchToday
  DownOnThreeFailures
  AdviceIsAccepted
PROPERTIES
  LoneChainIsExact
  FilesAreCleared
  CallsReturn
CHECK_DEADLOCK FALSE
