SPECIFICATION FairSpec
CONSTANTS
  c1 = c1
  c2 = c2
  k1 = k1
  Callers <- TwoCallers
  KeyIds <- OneKey
  Interval = 1
  MaxAges <- MCMaxAges
  Regimes = {"alone", "sound", "any"}
  Nil = Nil
  MaxTime = 2
  MaxCalls = 2
  MaxRotations = 1
INVARIANT
  TypeOK
PROPERTIES
  SoundRefetchSpaced
  AnsweredFromTheSet
  EveryCallReturns
CHECK_DEADLOCK FALSE
