SPECIFICATION FairSpec
CONSTANTS
  c1 = c1
  c2 = c2
  Callers <- MCCallers
  Nil = Nil
  Browsers = {"healthy", "faulty"}
  MaxId = 2
  MaxExtras = 1
  Window = 1
INVARIANTS
  ReaderNeverBlocks
  OnlyAClosureEnds
PROPERTIES
  AnswersMatch
  EveryCallEnds
CHECK_DEADLOCK FALSE
