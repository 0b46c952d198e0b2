SPECIFICATION SMSpec
CONSTANTS
  d = d
  nodoi = nodoi
  a = a
  aa = aa
  b = b
  c = c
  blank = blank
  failed = failed
  Key <- MCKey
  NoKey = blank
  DefaultEngineMax = 4
  Confs <- MCConfs
  Urls = {a, aa, b, c, blank}
  Lists <- MCLists
  Scores = {0, 1}
  Failed = failed
  PaperLists <- MCPaperLists
  NoDoi = nodoi
  PaperScores = {0, 1}
  MinPaperScore = 1
INVARIANTS AnswerIsClean EnginesAreHeard PapersMergedOnce
CHECK_DEADLOCK FALSE
