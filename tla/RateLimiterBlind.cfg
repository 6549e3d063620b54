SPECIFICATION Spec
CONSTANTS
  Size = 2
  Expiry = 3
  MaxTime = 7
  MaxClaims = 5
  Nil = Nil
  Regimes = {"any"}
INVARIANTS
  NeverBlindRefusal
CHECK_DEADLOCK FALSE
