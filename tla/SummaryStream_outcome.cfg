SPECIFICATION FairStreamSpec
CONSTANTS
  BufCap = 2
  MaxTokens = 4
INVARIANTS FailedStreamNotAnswered DrainedIsWhole
PROPERTIES ProducerEnds CallAnswered
CHECK_DEADLOCK FALSE
