SPECIFICATION Spec
CONSTANTS
  c1 = c1
  c2 = c2
  k1 = k1
  Callers <- TwoCallers
  KeyIds <- OneKey
  Interval = 1
  MaxAges = {2}
  Regimes = {"sound"}
  Nil = Nil
  MaxTime = 3
  MaxCalls = 2
  MaxRotations = 2
PROPERTY
  VerifierFromTheSet
CHECK_DEADLOCK FALSE
