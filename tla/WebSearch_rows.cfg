SPECIFICATION MCSpec
CONSTANTS
  r1 = r1
  r2 = r2
  i1 = i1
  i2 = i2
  none = none
  summaryless = summaryless
  Queries <- MCQueries
  Intents = {i1, i2}
  NoIntent = none
  NoSummary = summaryless
  Contents <- MCContents
  Readers = {r1, r2}
  MaxAge = 1
  Interval = 2
  Slow = 1
  MaxTime = 5
  AcademicKeys = {"query"}
  FetchModes = {TRUE, FALSE}
SYMMETRY Symmetry
INVARIANTS ResultsFitTheCall SummaryFitsIntent HitIsFresh
PROPERTIES UsedRowsStay
