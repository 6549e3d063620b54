SPECIFICATION Spec
CONSTANTS
  r1 = r1
  r2 = r2
  r3 = r3
  Requests <- MCRequests
  Size = 1
  Expiry = 2
  Lag = 1
  LastArrival = 1
  MaxTime = 3
  Nil = Nil
  Regimes = {"timely"}
SYMMETRY MCSymmetry
INVARIANTS
  KeyLimit
CHECK_DEADLOCK FALSE
