CONSTANTS
  Dialers = {d1, d2}
  Nil = Nil
  Buffer = 1
  CertLife = 2
  TokenLives <- TwoTokens
  MaxDials = 3
  MaxTime = 2
SPECIFICATION Spec
INVARIANTS FreshAfterFailure FetchesForCause ValidInHandshake
PROPERTY EveryDialReturns
CHECK_DEADLOCK FALSE
