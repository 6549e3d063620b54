CONSTANTS
  Requests = {r1, r2}
  Nobody = Nobody
  Encodings <- AllEncodings
  Spares <- NoneOrTwo
  Endpoints <- AllEndpoints
SPECIFICATION Spec
INVARIANT SaysItsOwn
SYMMETRY Interchangeable
CHECK_DEADLOCK FALSE
