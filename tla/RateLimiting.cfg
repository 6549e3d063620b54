SPECIFICATION FairSpec
CONSTANTS
  r1 = r1
  r2 = r2
  r3 = r3
  Requests <- MCRequests
  Size = 1
  Expiry = 2
  Lag = 1
  Regimes = {"serial", "timely"}
  LastArrival = 4
  MaxTime = 10
  Nil = Nil
INVARIANTS
  SerialKeyLimit
  RefusedForCause
PROPERTY
  EntryExpires
CHECK_DEADLOCK FALSE
